---- MODULE Spec2Model ----
(***************************************************************************)
(* Verification model of the kernel compliance checker                     *)
(* (kernel-compliance-check/src/lib.rs, with Variant taken from            *)
(* compliant/src/lib.rs).                                                  *)
(*                                                                         *)
(* Strings are sequences of one-character strings, so that split, replace, *)
(* strip_prefix and trim are computed character by character as the Rust   *)
(* standard library computes them.                                         *)
(*                                                                         *)
(* The module holds several specifications over one set of variables; each *)
(* drives one public entry point of the library:                           *)
(*   SpecNames    Variant::from_name / Display, get_repo_path /            *)
(*                get_repo_id_from_path                                    *)
(*   SpecAbi      check_abi_for_repository                                 *)
(*   SpecSnapshot process_repository_snapshot                              *)
(*   Spec         process_repository                                       *)
(*   SpecFetch    fetch_repository (direct strategy)                       *)
(***************************************************************************)
EXTENDS Naturals, Sequences, FiniteSets, TLC

VARIABLES
    \* --- SpecNames: one call of a string function
    nIn,        \* the input: a variant, a directory name or an (org, name) pair
    nPc,        \* position of the call chain
    nStr,       \* first string produced (to_string / folder name)
    nVar,       \* Option<Variant> produced by from_name
    nStr2,      \* second string produced (re-format / repo id)
    \* --- SpecAbi: one call of check_abi_for_repository
    snapshot,   \* the snapshot directory handed to the call
    abiArgs,    \* manylinux_version, python_abi_version, show_violations
    abiPc,      \* "call" before the call, "returned" after it
    abiRet,     \* Result<AbiCheckResult>, with the oracle calls made
    \* --- SpecSnapshot: one call of process_repository_snapshot
    remote,       \* what the build-variants.json endpoint answers
    rocmFeature,  \* cfg(feature = "enable_rocm") of the build
    variantsCell, \* the Lazy cell COMPLIANT_VARIANTS
    outFormat,    \* Format::Console or Format::Json
    snapPc,       \* "call" before the call, "returned" after it
    snapRet,      \* how the call ended, and what it printed
    \* --- Spec: one call of process_repository or of fetch_repository
    cache,      \* the local cache directory
    hub,        \* the remote repository as the Hub serves it
    pArgs,      \* entry point, revision, force_fetch, prefer_hub_cli
    pc,         \* position in process_repository
    repoCheck,  \* (repo_valid, snapshot_dir, hash) of the last revision check
    procRet,    \* how process_repository ended, and what it printed
    fetchPc,    \* position in fetch_repository_async
    fetchRet,   \* Result<()> of fetch_repository_async, with its counts
    tasks,      \* the download futures of the direct strategy, one per file
    results,    \* download_results, in completion order
    \* --- SpecBatch: one run of the check command
    bArgs,      \* program, --repos, --auto-fetch
    bPc,        \* position in the command
    bRepos,     \* repositories: the ids parsed from --repos
    bIdx,       \* index of the next repository of the loop
    bCalls,     \* the calls of process_repository made, in order
    \* --- SpecFind: one call of find_shared_objects
    findArgs,   \* the file system and the path handed to the call
    findPc,     \* "call" before the call, "returned" after it
    findRet,    \* Result<Vec<PathBuf>> of the call
    \* --- SpecCli: fetch_repository_async with prefer_hub_cli
    childProc,    \* the huggingface-cli process: what it has left to write, its exit
    pipes,        \* the lines in the stdout and the stderr pipe
    stdoutReader, \* the thread draining stdout, and what it printed
    stderrReader, \* the thread draining stderr: what it printed, error_output
    cliMsg        \* the message of the FetchError returned

namesVars == <<nIn, nPc, nStr, nVar, nStr2>>
abiVars   == <<snapshot, abiArgs, abiPc, abiRet>>
snapVars  == <<remote, rocmFeature, variantsCell, outFormat, snapPc, snapRet>>

procVars  == <<cache, hub, pArgs, pc, repoCheck, procRet>>
fetchVars == <<fetchPc, fetchRet, tasks, results>>

batchVars == <<bArgs, bPc, bRepos, bIdx, bCalls>>

findVars  == <<findArgs, findPc, findRet>>
cliVars   == <<childProc, pipes, stdoutReader, stderrReader, cliMsg>>
toolVars  == <<findVars, cliVars>>

vars == <<namesVars, abiVars, snapVars, procVars, fetchVars, batchVars, toolVars>>

(***************************************************************************)
(* Bounds of the model                                                     *)
(***************************************************************************)
MaxFieldLen == 1    \* longest field of a Variant in SpecNames
MaxNameLen  == 6    \* longest raw directory name given to from_name
MaxPartLen  == 2    \* longest org / repository name

(***************************************************************************)
(* Strings                                                                 *)
(***************************************************************************)
\* All sequences over alphabet cs of length at most n.
RECURSIVE StringsUpTo(_, _)
StringsUpTo(cs, n) ==
    IF n = 0 THEN {<< >>}
    ELSE LET shorter == StringsUpTo(cs, n - 1)
         IN  shorter \cup {Append(s, c) : s \in {t \in shorter : Len(t) = n - 1}, c \in cs}

\* s[i..] starts with p
MatchesAt(s, p, i) ==
    /\ i + Len(p) - 1 <= Len(s)
    /\ \A k \in 1..Len(p) : s[i + k - 1] = p[k]

Contains(s, p) == \E i \in 1..(Len(s) + 1) : MatchesAt(s, p, i)

\* str::split(char): the parts between the separators; n separators give
\* n + 1 parts, empty parts included.
RECURSIVE SplitAcc(_, _, _, _)
SplitAcc(s, sep, i, cur) ==
    IF i > Len(s) THEN <<cur>>
    ELSE IF s[i] = sep THEN <<cur>> \o SplitAcc(s, sep, i + 1, << >>)
    ELSE SplitAcc(s, sep, i + 1, Append(cur, s[i]))

Split(s, sep) == SplitAcc(s, sep, 1, << >>)

\* str::replace(from, to): leftmost non-overlapping matches, left to right.
RECURSIVE ReplaceFrom(_, _, _, _)
ReplaceFrom(s, from, to, i) ==
    IF i > Len(s) THEN << >>
    ELSE IF MatchesAt(s, from, i) THEN to \o ReplaceFrom(s, from, to, i + Len(from))
    ELSE <<s[i]>> \o ReplaceFrom(s, from, to, i + 1)

Replace(s, from, to) == ReplaceFrom(s, from, to, 1)

\* str::strip_prefix(p).unwrap_or(s)
StripPrefixOr(s, p) ==
    IF MatchesAt(s, p, 1) THEN SubSeq(s, Len(p) + 1, Len(s)) ELSE s

Dash       == "-"
Slash      == "/"
DashDash   == <<"-", "-">>
ModelsPfx  == <<"m", "o", "d", "e", "l", "s", "-", "-">>

(***************************************************************************)
(* Variant (compliant/src/lib.rs)                                          *)
(***************************************************************************)
NoVariantValue ==
    [torch_version |-> << >>, cxx_abi |-> << >>, compute_framework |-> << >>,
     arch |-> << >>, os |-> << >>]

None == [some |-> FALSE, v |-> NoVariantValue]
Some(v) == [some |-> TRUE, v |-> v]

\* A plausible slip: the last field read from the wrong index.
FromNameWrongIndex(name) ==
    LET parts == Split(name, Dash)
    IN  IF Len(parts) < 5 THEN None
        ELSE Some([torch_version |-> parts[1], cxx_abi |-> parts[2],
                   compute_framework |-> parts[3], arch |-> parts[4],
                   os |-> parts[4]])

\* Variant::from_name
FromName(name) ==
    LET parts == Split(name, Dash)
    IN  IF Len(parts) < 5 THEN None
        ELSE Some([torch_version |-> parts[1], cxx_abi |-> parts[2],
                   compute_framework |-> parts[3], arch |-> parts[4],
                   os |-> parts[5]])

\* impl Display for Variant
VariantToString(v) ==
    v.torch_version \o <<Dash>> \o v.cxx_abi \o <<Dash>> \o v.compute_framework
        \o <<Dash>> \o v.arch \o <<Dash>> \o v.os

(***************************************************************************)
(* Cache folder names                                                      *)
(***************************************************************************)
\* Repo::folder_name as called by get_repo_path: "models--" + repo_id with
\* every '/' replaced by "--".
FolderName(repo_id) == Replace(ModelsPfx \o repo_id, <<Slash>>, DashDash)

\* get_repo_path: base_dir joined with the folder name; a path is the
\* sequence of its components.
GetRepoPath(repo_id, base_dir) == Append(base_dir, FolderName(repo_id))

\* A plausible slip: the prefix is not stripped.
GetRepoIdFromPathKeepPrefix(path) ==
    Replace(path[Len(path)], DashDash, <<Slash>>)

\* get_repo_id_from_path: the last component, without the "models--"
\* prefix, every "--" replaced by '/'.
GetRepoIdFromPath(path) ==
    Replace(StripPrefixOr(path[Len(path)], ModelsPfx), DashDash, <<Slash>>)

(***************************************************************************)
(* Files and directories                                                   *)
(*                                                                         *)
(* A node is a file (with the binary it holds) or a directory (a function  *)
(* from entry names to nodes).  A path is the sequence of its components.  *)
(***************************************************************************)
NoEntries == [n \in {} |-> {}]

NoBin == [parse |-> FALSE, symbols |-> {}]

FileNode(bin)    == [isDir |-> FALSE, bin |-> bin, text |-> << >>, entries |-> NoEntries]
TextNode(text)   == [isDir |-> FALSE, bin |-> NoBin, text |-> text, entries |-> NoEntries]
DirNode(entries) == [isDir |-> TRUE, bin |-> NoBin, text |-> << >>, entries |-> entries]

\* The node a path leads to from a root directory, if there is one.  An
\* empty component (PathBuf::join("")) stays in the directory it is
\* joined to.
RECURSIVE Lookup(_, _)
Lookup(node, path) ==
    IF path = << >> THEN [exists |-> TRUE, node |-> node]
    ELSE IF ~node.isDir THEN [exists |-> FALSE, node |-> node]
    ELSE IF Head(path) = << >> THEN Lookup(node, Tail(path))
    ELSE IF Head(path) \notin DOMAIN node.entries THEN [exists |-> FALSE, node |-> node]
    ELSE Lookup(node.entries[Head(path)], Tail(path))

\* Path::exists
Exists(root, path) == Lookup(root, path).exists

\* str::trim: leading and trailing whitespace removed
Whitespace == {" ", "\n", "\t", "\r"}

RECURSIVE TrimStart(_)
TrimStart(s) ==
    IF s # << >> /\ Head(s) \in Whitespace THEN TrimStart(Tail(s)) ELSE s

RECURSIVE TrimEnd(_)
TrimEnd(s) ==
    IF s # << >> /\ s[Len(s)] \in Whitespace THEN TrimEnd(SubSeq(s, 1, Len(s) - 1)) ELSE s

Trim(s) == TrimEnd(TrimStart(s))

\* one entry / two entries of a directory
Entry(name, node) == name :> node
Merge(f, g) == f @@ g

\* An enumeration of a finite set, and the same enumeration reversed.
SeqOf(S) ==
    CHOOSE f \in [1..Cardinality(S) -> S] :
        \A i, j \in 1..Cardinality(S) : i # j => f[i] # f[j]

Reverse(s) == [i \in 1..Len(s) |-> s[Len(s) + 1 - i]]

\* fs::read_dir: the entry names of a directory.  The order is the
\* operating system's; rev chooses between one enumeration and its reverse.
ReadDir(dir, rev) ==
    LET s == SeqOf(DOMAIN dir.entries)
    IN  IF rev THEN Reverse(s) ELSE s

\* Path::extension: what follows the last '.' of the file name; none when
\* there is no '.' or when the only '.' is the first character.
LastDot(name) ==
    LET dots == {i \in 1..Len(name) : name[i] = "."}
    IN  IF dots = {} THEN 0 ELSE CHOOSE i \in dots : \A j \in dots : j <= i

NoExt == [some |-> FALSE, ext |-> << >>]
Extension(name) ==
    IF LastDot(name) <= 1 THEN NoExt
    ELSE [some |-> TRUE, ext |-> SubSeq(name, LastDot(name) + 1, Len(name))]

SoExt == [some |-> TRUE, ext |-> <<"s", "o">>]

\* A plausible slip: subdirectories are not descended into.
RECURSIVE FindSharedObjectsFlat(_, _, _)
FindSharedObjectsFlat(node, path, rev) ==
    IF ~node.isDir THEN << >>
    ELSE LET names == ReadDir(node, rev)
             from[i \in 1..(Len(names) + 1)] ==
                 IF i > Len(names) THEN << >>
                 ELSE LET child == node.entries[names[i]]
                          p     == Append(path, names[i])
                      IN  (IF ~child.isDir /\ Extension(names[i]) = SoExt
                           THEN <<[path |-> p, bin |-> child.bin]>>
                           ELSE << >>) \o from[i + 1]
         IN  from[1]

\* find_shared_objects: every file below dir whose extension is "so",
\* depth first.  Each found path is paired with the bytes fs::read returns
\* for it.  A path that is no directory gives the empty list.
RECURSIVE FindSharedObjects(_, _, _)
FindSharedObjects(node, path, rev) ==
    IF ~node.isDir THEN << >>
    ELSE LET names == ReadDir(node, rev)
             from[i \in 1..(Len(names) + 1)] ==
                 IF i > Len(names) THEN << >>
                 ELSE LET child == node.entries[names[i]]
                          p     == Append(path, names[i])
                      IN  (IF child.isDir THEN FindSharedObjects(child, p, rev)
                           ELSE IF Extension(names[i]) = SoExt
                                THEN <<[path |-> p, bin |-> child.bin]>>
                                ELSE << >>) \o from[i + 1]
         IN  from[1]

\* find_shared_objects called with a path: a path that does not exist or
\* is no directory gives the empty list, a directory the files found
\* below it, each under the path it was reached by
FindSharedObjectsAt(root, dir, rev) ==
    IF ~Exists(root, dir) \/ ~Lookup(root, dir).node.isDir THEN << >>
    ELSE FindSharedObjects(Lookup(root, dir).node, dir, rev)

(***************************************************************************)
(* ABI policy oracle (kernel_abi_check::check_manylinux, check_python_abi) *)
(*                                                                         *)
(* A binary is the set of versioned symbols it imports; a symbol violates  *)
(* a manylinux tag when its glibc version is above the tag's ceiling, and  *)
(* a Python ABI version when it was added to the stable ABI later.         *)
(***************************************************************************)
GlibcOld == [lib |-> "glibc", minor |-> 17]
GlibcNew == [lib |-> "glibc", minor |-> 34]
PyNew    == [lib |-> "python", minor |-> 12]

ManylinuxTags == {"manylinux_2_28", "manylinux_2_34"}
PythonAbis    == {[major |-> 3, minor |-> 9, patch |-> 0],
                  [major |-> 3, minor |-> 12, patch |-> 0]}

GlibcCeiling(tag) == IF tag = "manylinux_2_34" THEN 34 ELSE 28

CheckManylinux(tag, symbols) ==
    {sym \in symbols : sym.lib = "glibc" /\ sym.minor > GlibcCeiling(tag)}

CheckPythonAbi(version, symbols) ==
    {sym \in symbols : sym.lib = "python" /\ sym.minor > version.minor}

(***************************************************************************)
(* check_shared_object, check_abi_for_repository                           *)
(***************************************************************************)
NoText == [manylinux |-> {}, python |-> {}]

Failed == [ok |-> FALSE, passed |-> FALSE, text |-> NoText]

\* A plausible slip: only the manylinux result decides.
CheckSharedObjectManylinuxOnly(bin, manylinux_version, python_abi_version, show_violations) ==
    IF ~bin.parse THEN Failed
    ELSE LET manylinux_result  == CheckManylinux(manylinux_version, bin.symbols)
             python_abi_result == CheckPythonAbi(python_abi_version, bin.symbols)
             passed == manylinux_result = {}
         IN  [ok |-> TRUE, passed |-> passed,
              text |-> IF ~passed /\ show_violations
                       THEN [manylinux |-> manylinux_result, python |-> python_abi_result]
                       ELSE NoText]

\* check_shared_object: Err when the bytes do not parse as an object file,
\* else (passed, violations_output); the output is filled in only when the
\* check failed and violations are to be shown.
CheckSharedObject(bin, manylinux_version, python_abi_version, show_violations) ==
    IF ~bin.parse THEN Failed
    ELSE LET manylinux_result  == CheckManylinux(manylinux_version, bin.symbols)
             python_abi_result == CheckPythonAbi(python_abi_version, bin.symbols)
             passed == manylinux_result = {} /\ python_abi_result = {}
         IN  [ok |-> TRUE, passed |-> passed,
              text |-> IF ~passed /\ show_violations
                       THEN [manylinux |-> manylinux_result, python |-> python_abi_result]
                       ELSE NoText]

BuildName == <<"b", "u", "i", "l", "d">>

\* snapshot_dir.join("build")
BuildOf(snap) == snap.entries[BuildName]

NoAbiResult ==
    [ok |-> FALSE, overall_compatible |-> FALSE, variants |-> << >>,
     manylinux_version |-> "", python_abi_version |-> [major |-> 0, minor |-> 0, patch |-> 0],
     calls |-> << >>]

\* The shared objects of one variant, checked in order; stops at the first
\* binary that cannot be checked.  calls lists the binaries handed to the
\* oracle (a history the code does not keep).
RECURSIVE CheckObjects(_, _, _, _, _)
CheckObjects(so_files, j, args, variant_violations, calls) ==
    IF j > Len(so_files)
    THEN [ok |-> TRUE, violations |-> variant_violations, calls |-> calls]
    ELSE LET r == CheckSharedObject(so_files[j].bin, args.manylinux_version,
                                    args.python_abi_version, args.show_violations)
         IN  IF ~r.ok
             THEN [ok |-> FALSE, violations |-> variant_violations, calls |-> calls]
             ELSE CheckObjects(so_files, j + 1, args,
                               IF ~r.passed /\ args.show_violations
                               THEN Append(variant_violations, [message |-> r.text])
                               ELSE variant_violations,
                               Append(calls, so_files[j].path))

\* A plausible slip: an empty variant reported as not compatible.
VacuousResultIncompatible(variant_name) ==
    [name |-> variant_name, is_compatible |-> FALSE, violations |-> << >>,
     has_shared_objects |-> FALSE]

\* the result pushed for a variant without shared objects
VacuousResult(variant_name) ==
    [name |-> variant_name, is_compatible |-> TRUE, violations |-> << >>,
     has_shared_objects |-> FALSE]

\* the result pushed for a variant whose shared objects were all checked
CheckedResult(variant_name, variant_violations) ==
    [name |-> variant_name, is_compatible |-> variant_violations = << >>,
     violations |-> variant_violations, has_shared_objects |-> TRUE]

\* The loop over the variant directories; stops at the first error.
RECURSIVE CheckVariants(_, _, _, _, _, _, _)
CheckVariants(build, variant_paths, i, args, rev, variant_results, calls) ==
    IF i > Len(variant_paths)
    THEN [ok |-> TRUE, variants |-> variant_results, calls |-> calls]
    ELSE LET variant_name == variant_paths[i]
             so_files == FindSharedObjects(build.entries[variant_name],
                                           <<variant_name>>, rev)
         IN  IF so_files = << >>
             THEN CheckVariants(build, variant_paths, i + 1, args, rev,
                                Append(variant_results, VacuousResult(variant_name)),
                                calls)
             ELSE LET r == CheckObjects(so_files, 1, args, << >>, << >>)
                  IN  IF ~r.ok
                      THEN [ok |-> FALSE, variants |-> << >>, calls |-> calls \o r.calls]
                      ELSE CheckVariants(build, variant_paths, i + 1, args, rev,
                               Append(variant_results,
                                      CheckedResult(variant_name, r.violations)),
                               calls \o r.calls)

\* A plausible slip: any() in place of all().
OverallCompatibleAny(variant_results) ==
    \E i \in 1..Len(variant_results) : variant_results[i].is_compatible

\* variant_results.iter().all(|result| result.is_compatible)
OverallCompatible(variant_results) ==
    \A i \in 1..Len(variant_results) : variant_results[i].is_compatible

\* the entries of the build directory that are directories, in read order
VariantPaths(build, rev) ==
    SelectSeq(ReadDir(build, rev), LAMBDA n : build.entries[n].isDir)

\* the "empty result" returned when there is nothing to check
EmptyAbiResult(args) ==
    [ok |-> TRUE, overall_compatible |-> FALSE, variants |-> << >>,
     manylinux_version |-> args.manylinux_version,
     python_abi_version |-> args.python_abi_version, calls |-> << >>]

\* check_abi_for_repository
CheckAbiForRepository(snapshot_dir, args, rev) ==
    IF BuildName \notin DOMAIN snapshot_dir.entries THEN EmptyAbiResult(args)
    ELSE LET build == snapshot_dir.entries[BuildName]
         IN  IF ~build.isDir THEN NoAbiResult      \* read_dir fails
             ELSE LET variant_paths == VariantPaths(build, rev)
                  IN  IF variant_paths = << >> THEN EmptyAbiResult(args)
                      ELSE LET r == CheckVariants(build, variant_paths, 1, args, rev,
                                                  << >>, << >>)
                           IN  IF ~r.ok THEN [NoAbiResult EXCEPT !.calls = r.calls]
                               ELSE [ok |-> TRUE,
                                     overall_compatible |-> OverallCompatible(r.variants),
                                     variants |-> r.variants,
                                     manylinux_version |-> args.manylinux_version,
                                     python_abi_version |-> args.python_abi_version,
                                     calls |-> r.calls]

(***************************************************************************)
(* The cache layout: check_repository_revision and the freshness test of   *)
(* fetch_repository_async                                                  *)
(***************************************************************************)
RefsName      == <<"r", "e", "f", "s">>
SnapshotsName == <<"s", "n", "a", "p", "s", "h", "o", "t", "s">>

NotValid == [ok |-> TRUE, valid |-> FALSE, snapshot_dir |-> << >>, hash |-> << >>]
RevisionErr == [ok |-> FALSE, valid |-> FALSE, snapshot_dir |-> << >>, hash |-> << >>]

\* A plausible slip: the snapshot directory is not looked for.
CheckRepositoryRevisionRefOnly(repo_id, cache_dir, revision) ==
    LET repo_path == GetRepoPath(repo_id, << >>)
        ref_path  == repo_path \o <<RefsName, revision>>
    IN  IF ~Exists(cache_dir, repo_path) \/ ~Exists(cache_dir, ref_path) THEN NotValid
        ELSE IF Lookup(cache_dir, ref_path).node.isDir THEN RevisionErr
        ELSE LET hash == Trim(Lookup(cache_dir, ref_path).node.text)
                 snapshot_dir == repo_path \o <<SnapshotsName, hash>>
             IN  [ok |-> TRUE, valid |-> TRUE, snapshot_dir |-> snapshot_dir, hash |-> hash]

\* check_repository_revision: (repo_valid, snapshot_dir, hash), or Err when
\* the ref cannot be read as a file.  Paths are relative to the cache root.
CheckRepositoryRevision(repo_id, cache_dir, revision) ==
    LET repo_path == GetRepoPath(repo_id, << >>)
        ref_path  == repo_path \o <<RefsName, revision>>
    IN  IF ~Exists(cache_dir, repo_path) \/ ~Exists(cache_dir, ref_path) THEN NotValid
        ELSE IF Lookup(cache_dir, ref_path).node.isDir THEN RevisionErr
        ELSE LET hash == Trim(Lookup(cache_dir, ref_path).node.text)
                 snapshot_dir == repo_path \o <<SnapshotsName, hash>>
             IN  IF ~Exists(cache_dir, snapshot_dir) THEN NotValid
                 ELSE [ok |-> TRUE, valid |-> TRUE, snapshot_dir |-> snapshot_dir,
                       hash |-> hash]

\* A plausible slip: the build directory is not looked for.
UpToDateNoBuildCheck(repo_id, cache_dir, revision, force_fetch) ==
    LET repo_path == GetRepoPath(repo_id, << >>)
        ref_path  == repo_path \o <<RefsName, revision>>
    IN  IF ~(~force_fetch /\ Exists(cache_dir, ref_path)) THEN "fetch"
        ELSE IF Lookup(cache_dir, ref_path).node.isDir THEN "err"
        ELSE LET local_hash   == Trim(Lookup(cache_dir, ref_path).node.text)
                 snapshot_dir == repo_path \o <<SnapshotsName, local_hash>>
             IN  IF Exists(cache_dir, snapshot_dir) THEN "up_to_date" ELSE "fetch"

\* the head of fetch_repository_async: "up_to_date" for the early return,
\* "fetch" to go on to a download, "err" when the ref cannot be read
UpToDate(repo_id, cache_dir, revision, force_fetch) ==
    LET repo_path == GetRepoPath(repo_id, << >>)
        ref_path  == repo_path \o <<RefsName, revision>>
    IN  IF ~(~force_fetch /\ Exists(cache_dir, ref_path)) THEN "fetch"
        ELSE IF Lookup(cache_dir, ref_path).node.isDir THEN "err"
        ELSE LET local_hash   == Trim(Lookup(cache_dir, ref_path).node.text)
                 snapshot_dir == repo_path \o <<SnapshotsName, local_hash>>
                 build_dir    == Append(snapshot_dir, BuildName)
             IN  IF Exists(cache_dir, snapshot_dir) /\ Exists(cache_dir, build_dir)
                 THEN "up_to_date" ELSE "fetch"

(***************************************************************************)
(* The direct download strategy of fetch_repository_async                  *)
(***************************************************************************)
max_retries        == 2       \* retries after the first attempt
initial_delay_ms   == 1000    \* first backoff delay
success_delay_ms   == 500     \* sleep after a successful download
ConcurrencyLimit   == 10      \* buffer_unordered(10)

InitPyName ==
    <<"_", "_", "i", "n", "i", "t", "_", "_", ".", "p", "y">>

\* rfilename: the components of a path joined by '/'
RECURSIVE JoinPath(_)
JoinPath(path) ==
    IF path = << >> THEN << >>
    ELSE IF Len(path) = 1 THEN Head(path)
    ELSE Head(path) \o <<Slash>> \o JoinPath(Tail(path))

\* A plausible slip: the name is compared, not searched.
IsInitMarkerExactName(file_name) == JoinPath(file_name) = InitPyName

\* file_name.contains("__init__.py")
IsInitMarker(file_name) == Contains(JoinPath(file_name), InitPyName)

\* one write after another: F applied to the value v has once v is computed
AndThen(v, F(_)) == CHOOSE r \in {F(x) : x \in {v}} : TRUE

\* the tree with a node put at a path, directories made on the way
RECURSIVE Insert(_, _, _)
Insert(node, path, leaf) ==
    IF path = << >> THEN leaf
    ELSE LET h     == Head(path)
             below == IF node.isDir /\ h \in DOMAIN node.entries
                      THEN node.entries[h] ELSE DirNode(NoEntries)
             old   == IF node.isDir THEN node.entries ELSE NoEntries
         IN  [isDir |-> TRUE, bin |-> NoBin, text |-> << >>,
              entries |-> (h :> Insert(below, Tail(path), leaf)) @@ old]

\* what a download that succeeds leaves in the cache: the file under the
\* snapshot of the commit the revision resolves to, and the ref of the
\* revision pointing at that commit
WriteDownloaded(cache_dir, repo_id, revision, sha, file) ==
    LET repo_path == GetRepoPath(repo_id, << >>)
        WriteRef(written) == Insert(written, repo_path \o <<RefsName, revision>>, TextNode(sha))
    IN  AndThen(Insert(cache_dir, repo_path \o <<SnapshotsName, sha>> \o file.name, file.node),
                WriteRef)

\* the future of one file before its first poll
NewTask ==
    [st |-> "queued", retry_count |-> 0, delay_ms |-> initial_delay_ms,
     attempts |-> 0, err |-> "none", ok |-> FALSE, slept |-> << >>]

\* download(...) returned Ok: the future sleeps before it returns Ok
AttemptOk(task) ==
    [task EXCEPT !.st = "cooling", !.attempts = @ + 1, !.err = "none",
                 !.slept = Append(@, success_delay_ms)]

\* A plausible slip: one retry too few.
AttemptErrOneRetryLess(task, file_name, kind) ==
    IF IsInitMarker(file_name) /\ kind = "RequestError"
    THEN [task EXCEPT !.st = "done", !.attempts = @ + 1, !.err = kind, !.ok = TRUE]
    ELSE IF task.retry_count + 1 < max_retries
    THEN [task EXCEPT !.st = "backoff", !.attempts = @ + 1, !.err = kind,
                      !.slept = Append(@, task.delay_ms)]
    ELSE [task EXCEPT !.st = "done", !.attempts = @ + 1, !.err = kind, !.ok = FALSE]

\* download(...) returned Err(e): the init marker is let through on a
\* request error, else the future backs off and retries, or gives up
AttemptErr(task, file_name, kind) ==
    IF IsInitMarker(file_name) /\ kind = "RequestError"
    THEN [task EXCEPT !.st = "done", !.attempts = @ + 1, !.err = kind, !.ok = TRUE]
    ELSE IF task.retry_count < max_retries
    THEN [task EXCEPT !.st = "backoff", !.attempts = @ + 1, !.err = kind,
                      !.slept = Append(@, task.delay_ms)]
    ELSE [task EXCEPT !.st = "done", !.attempts = @ + 1, !.err = kind, !.ok = FALSE]

\* the backoff sleep is over: delay doubled, one more retry counted
Retry(task) ==
    [task EXCEPT !.st = "running", !.delay_ms = @ * 2, !.retry_count = @ + 1]

\* the sleep after the successful download is over
Cooled(task) == [task EXCEPT !.st = "done", !.ok = TRUE]

FetchReturn(ret, why, success_count, fail_count) ==
    [ret |-> ret, why |-> why, success_count |-> success_count,
     fail_count |-> fail_count]

\* A plausible slip: failures are counted and never returned.
BatchResultNeverFails(download_results) ==
    LET successful == SelectSeq(download_results, LAMBDA r : r.ok)
        failed     == SelectSeq(download_results, LAMBDA r : ~r.ok)
    IN  FetchReturn("Ok", "downloaded", Len(successful), Len(failed))

\* A plausible slip: any failed download fails the batch.
BatchResultFailFast(download_results) ==
    LET successful == SelectSeq(download_results, LAMBDA r : r.ok)
        failed     == SelectSeq(download_results, LAMBDA r : ~r.ok)
    IN  IF failed # << >>
        THEN FetchReturn("Err", "all_failed", Len(successful), Len(failed))
        ELSE FetchReturn("Ok", "downloaded", Len(successful), Len(failed))

\* A plausible slip: a batch without a successful download is an Err.
BatchResultNoSuccessIsErr(download_results) ==
    LET successful == SelectSeq(download_results, LAMBDA r : r.ok)
        failed     == SelectSeq(download_results, LAMBDA r : ~r.ok)
    IN  IF Len(successful) = 0
        THEN FetchReturn("Err", "all_failed", Len(successful), Len(failed))
        ELSE FetchReturn("Ok", "downloaded", Len(successful), Len(failed))

\* the partition of download_results and the Result it gives
BatchResult(download_results) ==
    LET successful == SelectSeq(download_results, LAMBDA r : r.ok)
        failed     == SelectSeq(download_results, LAMBDA r : ~r.ok)
        success_count == Len(successful)
        fail_count    == Len(failed)
    IN  IF failed # << >> /\ success_count = 0
        THEN FetchReturn("Err", "all_failed", success_count, fail_count)
        ELSE FetchReturn("Ok", "downloaded", success_count, fail_count)

\* futures polled and not yet finished
\* A plausible slip: a future sleeping between attempts is not counted.
InFlightRunningOnly(ts) == Cardinality({i \in DOMAIN ts : ts[i].st = "running"})

InFlight(ts) == Cardinality({i \in DOMAIN ts : ts[i].st \in {"running", "backoff", "cooling"}})

(***************************************************************************)
(* COMPLIANT_VARIANTS: the lazily fetched compliant-variant matrix         *)
(***************************************************************************)
NoManifest == [x86_64_linux  |-> [cuda |-> << >>, rocm |-> << >>],
               aarch64_linux |-> [cuda |-> << >>, rocm |-> << >>]]

\* fetch_compliant_variants: Err when the endpoint cannot be reached,
\* answers with a non-success status or with JSON that does not parse;
\* else the CUDA lists of both architectures one after the other, and the
\* ROCm list of x86_64-linux when the feature is compiled in.
FetchCompliantVariants(endpoint, enable_rocm) ==
    IF endpoint.status # "ok"
    THEN [ok |-> FALSE, cuda |-> << >>, rocm |-> << >>]
    ELSE [ok |-> TRUE,
          cuda |-> endpoint.manifest.x86_64_linux.cuda
                       \o endpoint.manifest.aarch64_linux.cuda,
          rocm |-> IF enable_rocm THEN endpoint.manifest.x86_64_linux.rocm ELSE << >>]

Uninit   == [state |-> "uninit",   cuda |-> << >>, rocm |-> << >>]
Poisoned == [state |-> "poisoned", cuda |-> << >>, rocm |-> << >>]

\* A plausible slip: the manifest is fetched at every access.
ForceVariantsEveryAccess(cell, endpoint, enable_rocm) ==
    LET r == FetchCompliantVariants(endpoint, enable_rocm)
    IN  IF r.ok
        THEN [panic |-> FALSE, fetched |-> TRUE,
              cell |-> [state |-> "init", cuda |-> r.cuda, rocm |-> r.rocm]]
        ELSE [panic |-> TRUE, fetched |-> TRUE, cell |-> Poisoned]

\* Lazy::force on COMPLIANT_VARIANTS: the first access fetches; a failed
\* fetch panics inside the initializer, which poisons the cell.
ForceVariants(cell, endpoint, enable_rocm) ==
    IF cell.state = "init" THEN [panic |-> FALSE, cell |-> cell, fetched |-> FALSE]
    ELSE IF cell.state = "poisoned"
         THEN [panic |-> TRUE, cell |-> cell, fetched |-> FALSE]
         ELSE LET r == FetchCompliantVariants(endpoint, enable_rocm)
              IN  IF r.ok
                  THEN [panic |-> FALSE, fetched |-> TRUE,
                        cell |-> [state |-> "init", cuda |-> r.cuda, rocm |-> r.rocm]]
                  ELSE [panic |-> TRUE, fetched |-> TRUE, cell |-> Poisoned]

(***************************************************************************)
(* get_build_variants, get_build_status_summary,                           *)
(* process_repository_snapshot                                             *)
(***************************************************************************)
SeqContains(seq, x) == \E i \in 1..Len(seq) : seq[i] = x

CountIf(seq, P(_)) == Cardinality({i \in 1..Len(seq) : P(seq[i])})

\* get_build_variants: the variants parsed from the names of the
\* subdirectories of build/, in read order.
GetBuildVariants(repo_path, rev) ==
    IF BuildName \notin DOMAIN repo_path.entries THEN << >>
    ELSE LET build == repo_path.entries[BuildName]
             dirs  == SelectSeq(ReadDir(build, rev),
                                LAMBDA n : build.entries[n].isDir /\ FromName(n).some)
         IN  [i \in 1..Len(dirs) |-> FromName(dirs[i]).v]

\* get_build_status_summary: the three counts the summary string shows
\* (the ROCm count only with the feature).
GetBuildStatusSummary(build, variants, cuda_variants, rocm_variants, enable_rocm) ==
    [built      |-> CountIf(variants, LAMBDA v : v \in DOMAIN build.entries),
     cuda_built |-> CountIf(variants, LAMBDA v : SeqContains(cuda_variants, v)
                                                  /\ v \in DOMAIN build.entries),
     rocm_built |-> IF enable_rocm
                    THEN CountIf(variants, LAMBDA v : SeqContains(rocm_variants, v)
                                                       /\ v \in DOMAIN build.entries)
                    ELSE 0]

NoSummary == [built |-> 0, cuda_built |-> 0, rocm_built |-> 0]
NoStatus  == [compatible |-> FALSE, present |-> << >>, missing |-> << >>]

\* nothing printed
NoOutput ==
    [status |-> "none", repository |-> "", format |-> "none",
     build_status |-> NoSummary, cuda |-> NoStatus, rocm_enabled |-> FALSE,
     rocm |-> NoStatus, abi |-> NoAbiResult]

\* RepoErrorResponse / the console line that stands for it
ErrorOutput(repo_id, status, format) ==
    [NoOutput EXCEPT !.status = status, !.repository = repo_id, !.format = format]

\* how a call of process_repository_snapshot ends
SnapshotReturn(ret, out, cell, fetched, variant_strings) ==
    [ret |-> ret, out |-> out, cell |-> cell, fetched |-> fetched,
     variant_strings |-> variant_strings]

\* A plausible slip: one matrix entry among the variant strings is enough
\* for compatible.
MatrixStatusAnyOverlap(matrix_variants, variant_strings) ==
    LET present == SelectSeq(matrix_variants, LAMBDA v : SeqContains(variant_strings, v))
    IN  [compatible |-> present # << >>,
         present    |-> present,
         missing    |-> SelectSeq(matrix_variants, LAMBDA v : ~SeqContains(present, v))]

\* the matrix entries that are among the variant strings, and whether that
\* is all of them
MatrixStatus(matrix_variants, variant_strings) ==
    LET present == SelectSeq(matrix_variants, LAMBDA v : SeqContains(variant_strings, v))
    IN  [compatible |-> Len(present) = Len(matrix_variants),
         present    |-> present,
         missing    |-> SelectSeq(matrix_variants, LAMBDA v : ~SeqContains(present, v))]

\* process_repository_snapshot once build/ is known to exist
ProcessBuiltSnapshot(repo_id, snapshot_dir, args, format, cell, endpoint, enable_rocm, rev) ==
    LET build    == snapshot_dir.entries[BuildName]
        variants == GetBuildVariants(snapshot_dir, rev)
        variant_strings == [i \in 1..Len(variants) |-> VariantToString(variants[i])]
        forced   == ForceVariants(cell, endpoint, enable_rocm)
        abi_output == CheckAbiForRepository(snapshot_dir, args, rev)
    IN  IF ~build.isDir        \* get_build_variants: read_dir fails
        THEN SnapshotReturn("Err", NoOutput, cell, FALSE, << >>)
        ELSE IF forced.panic
        THEN SnapshotReturn("panic", NoOutput, forced.cell, forced.fetched,
                            variant_strings)
        ELSE IF ~abi_output.ok
        THEN SnapshotReturn("Err", NoOutput, forced.cell, forced.fetched,
                            variant_strings)
        ELSE SnapshotReturn("Ok",
                 [status |-> "success", repository |-> repo_id, format |-> format,
                  build_status |-> GetBuildStatusSummary(build, variant_strings,
                                       forced.cell.cuda, forced.cell.rocm, enable_rocm),
                  cuda |-> MatrixStatus(forced.cell.cuda, variant_strings),
                  rocm_enabled |-> enable_rocm,
                  rocm |-> IF enable_rocm
                           THEN MatrixStatus(forced.cell.rocm, variant_strings)
                           ELSE [compatible |-> TRUE, present |-> << >>,
                                 missing |-> << >>],
                  abi |-> [abi_output EXCEPT !.calls = << >>]],
                 forced.cell, forced.fetched, variant_strings)

\* A plausible slip: the matrix is read before build/ is looked for.
ProcessRepositorySnapshotMatrixFirst(repo_id, snapshot_dir, args, format, cell, endpoint, enable_rocm, rev) ==
    LET forced == ForceVariants(cell, endpoint, enable_rocm)
    IN  IF forced.panic
        THEN SnapshotReturn("panic", NoOutput, forced.cell, forced.fetched, << >>)
        ELSE IF BuildName \notin DOMAIN snapshot_dir.entries
        THEN SnapshotReturn("BuildDirNotFound",
                            ErrorOutput(repo_id, "missing_build_dir", format),
                            forced.cell, forced.fetched, << >>)
        ELSE ProcessBuiltSnapshot(repo_id, snapshot_dir, args, format, forced.cell,
                                  endpoint, enable_rocm, rev)

\* process_repository_snapshot
ProcessRepositorySnapshot(repo_id, snapshot_dir, args, format, cell, endpoint, enable_rocm, rev) ==
    IF BuildName \notin DOMAIN snapshot_dir.entries
    THEN SnapshotReturn("BuildDirNotFound",
                        ErrorOutput(repo_id, "missing_build_dir", format),
                        cell, FALSE, << >>)
    ELSE ProcessBuiltSnapshot(repo_id, snapshot_dir, args, format, cell, endpoint,
                              enable_rocm, rev)

(***************************************************************************)
(* The parts of the state a specification does not use stay at these       *)
(* values.                                                                 *)
(***************************************************************************)
NoNamesInput ==
    [kind |-> "none", v |-> NoVariantValue, s |-> << >>, org |-> << >>, name |-> << >>]

NamesOff ==
    /\ nIn = NoNamesInput
    /\ nPc = "off"
    /\ nStr = << >>
    /\ nVar = None
    /\ nStr2 = << >>

NoArgs ==
    [manylinux_version |-> "", python_abi_version |-> [major |-> 0, minor |-> 0, patch |-> 0],
     show_violations |-> FALSE]

AbiOff ==
    /\ snapshot = DirNode(NoEntries)
    /\ abiArgs = NoArgs
    /\ abiPc = "off"
    /\ abiRet = NoAbiResult

NoRemote == [status |-> "unreachable", manifest |-> NoManifest]

NoSnapshotReturn == SnapshotReturn("none", NoOutput, Uninit, FALSE, << >>)

SnapOff ==
    /\ remote = NoRemote
    /\ rocmFeature = FALSE
    /\ variantsCell = Uninit
    /\ outFormat = "Console"
    /\ snapPc = "off"
    /\ snapRet = NoSnapshotReturn

NoHub == [status |-> "unavailable", sha |-> << >>, files |-> << >>]

NoProcArgs ==
    [entry |-> "none", revision |-> << >>, force_fetch |-> FALSE, prefer_hub_cli |-> FALSE]

NoProcReturn == [ret |-> "none", out |-> << >>]

NoFetchReturn ==
    [ret |-> "none", why |-> "none", success_count |-> 0, fail_count |-> 0]

NoBatchArgs == [program |-> "none", repos |-> << >>, auto_fetch |-> FALSE]

NoFindArgs == [root |-> DirNode(NoEntries), dir |-> << >>]
NoFindReturn == [ok |-> FALSE, so_files |-> << >>]

FindOff ==
    /\ findArgs = NoFindArgs
    /\ findPc = "off"
    /\ findRet = NoFindReturn

NoChild  == [state |-> "none", status |-> 0, out |-> << >>, err |-> << >>]
NoPipes  == [out |-> << >>, err |-> << >>]
NoReader == [st |-> "none", printed |-> << >>, error_output |-> << >>]
NoCliMsg == [repo_id |-> << >>, stderr_output |-> << >>]

CliOff ==
    /\ childProc = NoChild
    /\ pipes = NoPipes
    /\ stdoutReader = NoReader
    /\ stderrReader = NoReader
    /\ cliMsg = NoCliMsg

ToolOff == FindOff /\ CliOff

BatchOff ==
    /\ bArgs = NoBatchArgs
    /\ bPc = "off"
    /\ bRepos = << >>
    /\ bIdx = 0
    /\ bCalls = << >>

ProcOff ==
    /\ CliOff
    /\ BatchOff
    /\ cache = DirNode(NoEntries)
    /\ hub = NoHub
    /\ pArgs = NoProcArgs
    /\ pc = "off"
    /\ repoCheck = NotValid
    /\ procRet = NoProcReturn
    /\ fetchPc = "off"
    /\ fetchRet = NoFetchReturn
    /\ tasks = << >>
    /\ results = << >>

(***************************************************************************)
(* SpecNames                                                               *)
(***************************************************************************)
FieldChars == {"t", Dash}
NameChars  == {"t", Dash}
RepoChars  == {"a", Dash, Slash}
CacheDir   == <<<<"h", "u", "b">>>>

FieldValues == StringsUpTo(FieldChars, MaxFieldLen)

Variants ==
    [torch_version : FieldValues, cxx_abi : FieldValues,
     compute_framework : FieldValues, arch : FieldValues, os : FieldValues]

NamesInputs ==
    {[kind |-> "variant", v |-> v, s |-> << >>, org |-> << >>, name |-> << >>] :
        v \in Variants}
    \cup
    {[kind |-> "dirname", v |-> NoVariantValue, s |-> s, org |-> << >>, name |-> << >>] :
        s \in StringsUpTo(NameChars, MaxNameLen)}
    \cup
    {[kind |-> "repo", v |-> NoVariantValue, s |-> << >>, org |-> o, name |-> n] :
        o \in StringsUpTo(RepoChars, MaxPartLen), n \in StringsUpTo(RepoChars, MaxPartLen)}

NamesIdle ==
    /\ nPc = "in"
    /\ nStr = << >>
    /\ nVar = None
    /\ nStr2 = << >>

InitNames ==
    /\ ProcOff
    /\ FindOff
    /\ nIn \in NamesInputs
    /\ NamesIdle
    /\ AbiOff
    /\ SnapOff

\* v.to_string()
FormatVariant ==
    /\ nPc = "in" /\ nIn.kind = "variant"
    /\ nStr' = VariantToString(nIn.v)
    /\ nPc' = "named"
    /\ UNCHANGED <<toolVars, batchVars, nIn, nVar, nStr2, abiVars, snapVars, procVars, fetchVars>>

\* a directory name arrives as it is
TakeDirName ==
    /\ nPc = "in" /\ nIn.kind = "dirname"
    /\ nStr' = nIn.s
    /\ nPc' = "named"
    /\ UNCHANGED <<toolVars, batchVars, nIn, nVar, nStr2, abiVars, snapVars, procVars, fetchVars>>

\* Variant::from_name(&name)
ParseName ==
    /\ nPc = "named"
    /\ nVar' = FromName(nStr)
    /\ nPc' = "parsed"
    /\ UNCHANGED <<toolVars, batchVars, nIn, nStr, nStr2, abiVars, snapVars, procVars, fetchVars>>

\* the parsed variant's to_string()
ReformatVariant ==
    /\ nPc = "parsed" /\ nVar.some
    /\ nStr2' = VariantToString(nVar.v)
    /\ nPc' = "reformatted"
    /\ UNCHANGED <<toolVars, batchVars, nIn, nStr, nVar, abiVars, snapVars, procVars, fetchVars>>

\* get_repo_path(org/name, cache_dir): the folder is the last component
CallGetRepoPath ==
    /\ nPc = "in" /\ nIn.kind = "repo"
    /\ nStr' = LET p == GetRepoPath(nIn.org \o <<Slash>> \o nIn.name, CacheDir)
               IN  p[Len(p)]
    /\ nPc' = "folder"
    /\ UNCHANGED <<toolVars, batchVars, nIn, nVar, nStr2, abiVars, snapVars, procVars, fetchVars>>

\* get_repo_id_from_path(cache_dir/folder)
CallGetRepoIdFromPath ==
    /\ nPc = "folder"
    /\ nStr2' = GetRepoIdFromPath(Append(CacheDir, nStr))
    /\ nPc' = "repoid"
    /\ UNCHANGED <<toolVars, batchVars, nIn, nStr, nVar, abiVars, snapVars, procVars, fetchVars>>

NextNames ==
    \/ FormatVariant
    \/ TakeDirName
    \/ ParseName
    \/ ReformatVariant
    \/ CallGetRepoPath
    \/ CallGetRepoIdFromPath

SpecNames == InitNames /\ [][NextNames]_vars

(***************************************************************************)
(* SpecAbi: check_abi_for_repository on a snapshot directory               *)
(***************************************************************************)
MaxBuildEntries == 2    \* most entries of build/ in SpecAbi

Unparseable == [parse |-> FALSE, symbols |-> {}]
Bin(symbols) == [parse |-> TRUE, symbols |-> symbols]

SoName  == <<"k", ".", "s", "o">>
PyName  == <<"n", ".", "p", "y">>
SubName == <<"s", "u", "b">>
ReadmeName == <<"R", "E", "A", "D", "M", "E">>

SoBins == {Unparseable, Bin({GlibcOld}), Bin({GlibcNew}), Bin({PyNew})}

\* what a variant directory holds at its top level, and in its subdirectory
TopEntries ==
    {NoEntries} \cup {Entry(SoName, FileNode(b)) : b \in SoBins}
                \cup {Entry(PyName, FileNode(Bin({GlibcNew})))}
SubEntries ==
    {NoEntries, Entry(SubName, DirNode(NoEntries)),
     Entry(SubName, DirNode(Entry(SoName, FileNode(Bin({GlibcNew})))))}

VariantDirs == {DirNode(Merge(t, u)) : t \in TopEntries, u \in SubEntries}

\* the name of the i-th variant directory: i times 't', then four more fields
VariantName(i) ==
    [k \in 1..i |-> "t"] \o <<Dash, "c", Dash, "c", Dash, "c", Dash, "c">>

\* build directories of at most MaxBuildEntries entries: variant
\* directories with the first k variant names, with or without a plain file
\* beside them
BuildDirs ==
    UNION {{DirNode(Merge(f, stray)) :
               f \in [{VariantName(i) : i \in 1..k} -> VariantDirs],
               stray \in IF k < MaxBuildEntries
                         THEN {NoEntries, Entry(ReadmeName, FileNode(NoBin))}
                         ELSE {NoEntries}} :
           k \in 0..MaxBuildEntries}

AbiSnapshots ==
    {DirNode(NoEntries)} \cup {DirNode(Entry(BuildName, b)) : b \in BuildDirs}

AbiArgs ==
    [manylinux_version : ManylinuxTags, python_abi_version : PythonAbis,
     show_violations : BOOLEAN]

AbiIdle ==
    /\ abiPc = "call"
    /\ abiRet = NoAbiResult

InitAbi ==
    /\ ProcOff
    /\ FindOff
    /\ snapshot \in AbiSnapshots
    /\ abiArgs \in AbiArgs
    /\ AbiIdle
    /\ NamesOff
    /\ SnapOff

CallCheckAbiForRepository ==
    /\ abiPc = "call"
    /\ \E rev \in BOOLEAN : abiRet' = CheckAbiForRepository(snapshot, abiArgs, rev)
    /\ abiPc' = "returned"
    /\ UNCHANGED <<toolVars, batchVars, snapshot, abiArgs, namesVars, snapVars, procVars, fetchVars>>

NextAbi == CallCheckAbiForRepository

SpecAbi == InitAbi /\ [][NextAbi]_vars

(***************************************************************************)
(* SpecSnapshot: process_repository_snapshot on a snapshot directory       *)
(***************************************************************************)
MaxSnapEntries == 2    \* most entries of build/ in SpecSnapshot
MaxArchList    == 1    \* most names per list of the remote manifest

RepoId == <<"o", Slash, "n">>

\* directory names of four, five and six dash-separated fields
FiveT == VariantName(1)
FiveU == <<"u">> \o SubSeq(FiveT, 2, Len(FiveT))
SixT  == FiveT \o <<Dash, "c">>
FourT == SubSeq(FiveT, 1, Len(FiveT) - 2)

SnapDirNames == {FourT, FiveT, FiveU, SixT}
MatrixNames  == {FiveT, FiveU}

\* an entry of build/: a plain file or a directory without binaries
SnapEntries == {FileNode(NoBin), DirNode(NoEntries)}

SnapBuildDirs ==
    {DirNode(f) : f \in UNION {[names -> SnapEntries] :
                     names \in {S \in SUBSET SnapDirNames : Cardinality(S) <= MaxSnapEntries}}}

SnapSnapshots ==
    {DirNode(NoEntries)} \cup {DirNode(Entry(BuildName, b)) : b \in SnapBuildDirs}

ArchLists == StringsUpTo(MatrixNames, MaxArchList)

\* what the endpoint can answer; the rocm lists are read only with the feature
Remotes(enable_rocm) ==
    {[status |-> st, manifest |-> NoManifest] :
        st \in {"unreachable", "http_error", "malformed"}}
    \cup
    {[status |-> "ok",
      manifest |-> [x86_64_linux  |-> [cuda |-> c1, rocm |-> r],
                    aarch64_linux |-> [cuda |-> c2, rocm |-> << >>]]] :
        c1 \in ArchLists, c2 \in ArchLists,
        r \in IF enable_rocm THEN ArchLists ELSE {<< >>}}

SnapArgs ==
    [manylinux_version : {"manylinux_2_28"},
     python_abi_version : {[major |-> 3, minor |-> 9, patch |-> 0]},
     show_violations : BOOLEAN]

InitSnapshot ==
    /\ ProcOff
    /\ FindOff
    /\ snapshot \in SnapSnapshots
    /\ abiArgs \in SnapArgs
    /\ abiPc = "off"
    /\ abiRet = NoAbiResult
    /\ rocmFeature \in BOOLEAN
    /\ remote \in Remotes(rocmFeature)
    /\ variantsCell = Uninit
    /\ outFormat \in {"Console", "Json"}
    /\ snapPc = "call"
    /\ snapRet = NoSnapshotReturn
    /\ NamesOff

CallProcessRepositorySnapshot ==
    /\ snapPc = "call"
    /\ \E rev \in BOOLEAN :
        snapRet' = ProcessRepositorySnapshot(RepoId, snapshot, abiArgs, outFormat,
                                             variantsCell, remote, rocmFeature, rev)
    /\ variantsCell' = snapRet'.cell
    /\ snapPc' = "returned"
    /\ UNCHANGED <<toolVars, batchVars, namesVars, abiVars, remote, rocmFeature, outFormat, procVars, fetchVars>>

NextSnapshot == CallProcessRepositorySnapshot

SpecSnapshot == InitSnapshot /\ [][NextSnapshot]_vars

(***************************************************************************)
(* Spec: one call of process_repository, or of fetch_repository, on a      *)
(* cache directory and a remote repository                                 *)
(***************************************************************************)
Main  == <<"m", "a", "i", "n">>
Dev   == <<"d", "e", "v">>
HashH == <<"h">>
HashG == <<"g">>

Revisions == {Main, Dev}

\* refs/: no ref, a ref of main (naming a snapshot that may exist, one that
\* does not, or nothing), a ref of dev, or a directory where the ref of main
\* should be
RefOptions ==
    {NoEntries,
     Entry(Main, TextNode(HashH \o <<"\n">>)),
     Entry(Main, TextNode(HashG)),
     Entry(Main, TextNode(<<"\n">>)),
     Entry(Dev, TextNode(HashH)),
     Entry(Main, DirNode(NoEntries))}

BuiltSnapshot ==
    DirNode(Entry(BuildName,
        DirNode(Entry(FiveT, DirNode(Entry(SoName, FileNode(Bin({GlibcOld}))))))))

\* snapshots/: empty, or the snapshot h without or with a build directory
SnapOptions ==
    {NoEntries, Entry(HashH, DirNode(NoEntries)), Entry(HashH, BuiltSnapshot)}

Caches ==
    {DirNode(NoEntries)}
    \cup
    {DirNode(Entry(FolderName(RepoId),
                   DirNode(Merge(Entry(RefsName, DirNode(r)),
                                 Entry(SnapshotsName, DirNode(sn)))))) :
        r \in RefOptions, sn \in SnapOptions}

\* a sibling of the remote repository; hangs: its download call never returns
SoFile     == [name |-> <<BuildName, FiveT, SoName>>, node |-> FileNode(Bin({GlibcOld})), hangs |-> FALSE]
InitFile   == [name |-> <<BuildName, FiveT, InitPyName>>, node |-> TextNode(<< >>), hangs |-> FALSE]
ReadmeFile == [name |-> <<ReadmeName>>, node |-> TextNode(<<"x">>), hangs |-> FALSE]

\* the file lists (siblings) the remote repository can have
HubListings ==
    {<< >>, <<SoFile>>, <<InitFile>>, <<ReadmeFile, SoFile>>, <<InitFile, SoFile>>}

Hubs == {NoHub} \cup {[status |-> "ok", sha |-> HashH, files |-> l] : l \in HubListings}

ProcArgs ==
    [entry : {"process_repository", "fetch_repository"}, revision : Revisions,
     force_fetch : BOOLEAN, prefer_hub_cli : BOOLEAN]

ProcRemotes ==
    {NoRemote,
     [status |-> "ok",
      manifest |-> [x86_64_linux  |-> [cuda |-> <<FiveT>>, rocm |-> << >>],
                    aarch64_linux |-> [cuda |-> << >>, rocm |-> << >>]]]}

Init ==
    /\ ToolOff
    /\ cache \in Caches
    /\ hub \in Hubs
    /\ pArgs \in ProcArgs
    /\ pc = IF pArgs.entry = "process_repository" THEN "start" ELSE "off"
    /\ repoCheck = NotValid
    /\ procRet = NoProcReturn
    /\ fetchPc = IF pArgs.entry = "fetch_repository" THEN "entry" ELSE "off"
    /\ fetchRet = NoFetchReturn
    /\ tasks = << >>
    /\ results = << >>
    /\ BatchOff
    /\ snapshot = DirNode(NoEntries)
    /\ abiArgs = [manylinux_version |-> "manylinux_2_28",
                  python_abi_version |-> [major |-> 3, minor |-> 9, patch |-> 0],
                  show_violations |-> TRUE]
    /\ abiPc = "off"
    /\ abiRet = NoAbiResult
    /\ remote \in ProcRemotes
    /\ rocmFeature = FALSE
    /\ variantsCell = Uninit
    /\ outFormat = "Json"
    /\ snapPc = "off"
    /\ snapRet = NoSnapshotReturn
    /\ NamesOff

ProcReturn(ret, out) == [ret |-> ret, out |-> out]

\* the call of process_repository_snapshot on the directory a valid
\* revision resolves to; its Err (and its panic) ends process_repository
ProcessSnapshotStep(rv) ==
    \E rev \in BOOLEAN, snapshot_dir \in {Lookup(cache, rv.snapshot_dir).node} :
        \E r \in {ProcessRepositorySnapshot(RepoId, snapshot_dir, abiArgs, outFormat,
                                            variantsCell, remote, rocmFeature, rev)} :
            /\ snapRet' = r
            /\ variantsCell' = r.cell
            /\ procRet' = ProcReturn(r.ret, IF r.out = NoOutput THEN << >> ELSE <<r.out>>)

\* A plausible slip: under force_fetch a valid snapshot is processed before
\* the fetch is called.
CallProcessRepositoryReportsBeforeFetch ==
    /\ pc = "start"
    /\ \E rv \in {CheckRepositoryRevision(RepoId, cache, pArgs.revision)} :
        /\ repoCheck' = rv
        /\ IF ~rv.ok
           THEN /\ procRet' = ProcReturn("Err", << >>)
                /\ pc' = "done"
                /\ UNCHANGED <<fetchPc, snapRet, variantsCell>>
           ELSE IF rv.valid
           THEN /\ ProcessSnapshotStep(rv)
                /\ pc' = IF pArgs.force_fetch THEN "fetching" ELSE "done"
                /\ fetchPc' = IF pArgs.force_fetch THEN "entry" ELSE fetchPc
           ELSE /\ pc' = "fetching"
                /\ fetchPc' = "entry"
                /\ UNCHANGED <<procRet, snapRet, variantsCell>>
    /\ UNCHANGED <<toolVars, batchVars, namesVars, abiVars, remote, rocmFeature, outFormat, snapPc,
                   cache, hub, pArgs, fetchRet, tasks, results>>

\* process_repository up to its return or to the call of fetch_repository
CallProcessRepository ==
    /\ pc = "start"
    /\ \E rv \in {CheckRepositoryRevision(RepoId, cache, pArgs.revision)} :
        /\ repoCheck' = rv
        /\ IF ~rv.ok
           THEN /\ procRet' = ProcReturn("Err", << >>)
                /\ pc' = "done"
                /\ UNCHANGED <<fetchPc, snapRet, variantsCell>>
           ELSE IF rv.valid /\ ~pArgs.force_fetch
           THEN /\ ProcessSnapshotStep(rv)
                /\ pc' = "done"
                /\ UNCHANGED fetchPc
           ELSE /\ pc' = "fetching"
                /\ fetchPc' = "entry"
                /\ UNCHANGED <<procRet, snapRet, variantsCell>>
    /\ UNCHANGED <<toolVars, batchVars, namesVars, abiVars, remote, rocmFeature, outFormat, snapPc,
                   cache, hub, pArgs, fetchRet, tasks, results>>

\* fetch_repository_async up to the early return or to the choice of the
\* strategy.  It looks in get_cache_dir(), the directory process_repository
\* was handed by main.
FetchBegin ==
    /\ fetchPc = "entry"
    /\ LET d == UpToDate(RepoId, cache, pArgs.revision, pArgs.force_fetch)
       IN  IF d = "up_to_date"
           THEN fetchRet' = FetchReturn("Ok", "up_to_date", 0, 0) /\ fetchPc' = "returned"
           ELSE IF d = "err"
           THEN fetchRet' = FetchReturn("Err", "ref_unreadable", 0, 0)
                /\ fetchPc' = "returned"
           ELSE fetchRet' = fetchRet
                /\ fetchPc' = IF pArgs.prefer_hub_cli THEN "cli" ELSE "info"
    /\ UNCHANGED <<toolVars, batchVars, namesVars, abiVars, snapVars, procVars, tasks, results>>

\* every file of the remote repository written, the snapshot directory and
\* the ref also when there is no file
RECURSIVE WriteAll(_, _, _, _, _)
WriteAll(cache_dir, repo_id, revision, sha, files) ==
    IF files = << >>
    THEN LET repo_path == GetRepoPath(repo_id, << >>)
             snap_path == repo_path \o <<SnapshotsName, sha>>
             made      == IF Exists(cache_dir, snap_path) THEN cache_dir
                          ELSE Insert(cache_dir, snap_path, DirNode(NoEntries))
             WriteRef(written) ==
                 Insert(written, repo_path \o <<RefsName, revision>>, TextNode(sha))
         IN  AndThen(made, WriteRef)
    ELSE LET WriteRest(written) == WriteAll(written, repo_id, revision, sha, Tail(files))
         IN  AndThen(WriteDownloaded(cache_dir, repo_id, revision, sha, Head(files)),
                     WriteRest)

\* the delegated strategy: huggingface-cli download, to its exit
RunHubCli ==
    /\ fetchPc = "cli"
    /\ \E outcome \in {"spawn_failed", "exit_nonzero"}
                      \cup (IF hub.status = "ok" THEN {"exit_zero"} ELSE {}) :
        IF outcome = "exit_zero"
        THEN /\ cache' = WriteAll(cache, RepoId, pArgs.revision, hub.sha, hub.files)
             /\ fetchRet' = FetchReturn("Ok", "cli", 0, 0)
        ELSE /\ cache' = cache
             /\ fetchRet' = FetchReturn("Err", outcome, 0, 0)
    /\ fetchPc' = "returned"
    /\ UNCHANGED <<toolVars, batchVars, namesVars, abiVars, snapVars, hub, pArgs, pc, repoCheck, procRet,
                   tasks, results>>

\* the direct strategy: api_repo.info() and the stream of futures
RepoInfo ==
    /\ fetchPc = "info"
    /\ IF hub.status # "ok"
       THEN /\ fetchRet' = FetchReturn("Err", "info_failed", 0, 0)
            /\ fetchPc' = "returned"
            /\ tasks' = tasks
       ELSE /\ tasks' = [i \in 1..Len(hub.files) |-> NewTask]
            /\ fetchPc' = "downloading"
            /\ fetchRet' = fetchRet
    /\ UNCHANGED <<toolVars, batchVars, namesVars, abiVars, snapVars, procVars, results>>

\* buffer_unordered takes the next file of the stream while fewer than
\* ConcurrencyLimit futures are in flight
StartDownload ==
    /\ fetchPc = "downloading"
    /\ InFlight(tasks) < ConcurrencyLimit
    /\ \E i \in DOMAIN tasks :
        /\ tasks[i].st = "queued"
        /\ \A j \in 1..(i - 1) : tasks[j].st # "queued"
        /\ tasks' = [tasks EXCEPT ![i].st = "running"]
    /\ UNCHANGED <<toolVars, batchVars, namesVars, abiVars, snapVars, procVars, fetchPc, fetchRet, results>>

\* download_repo.download(&file_name) returns Ok
DownloadOk(i) ==
    /\ fetchPc = "downloading"
    /\ tasks[i].st = "running"
    /\ ~hub.files[i].hangs
    /\ tasks' = [tasks EXCEPT ![i] = AttemptOk(@)]
    /\ cache' = WriteDownloaded(cache, RepoId, pArgs.revision, hub.sha, hub.files[i])
    /\ UNCHANGED <<toolVars, batchVars, namesVars, abiVars, snapVars, hub, pArgs, pc, repoCheck, procRet,
                   fetchPc, fetchRet, results>>

\* download_repo.download(&file_name) returns Err
DownloadErr(i) ==
    /\ fetchPc = "downloading"
    /\ tasks[i].st = "running"
    /\ ~hub.files[i].hangs
    /\ \E kind \in {"RequestError", "Other"} :
        LET t == AttemptErr(tasks[i], hub.files[i].name, kind)
        IN  /\ tasks' = [tasks EXCEPT ![i] = t]
            /\ results' = IF t.st = "done"
                          THEN Append(results, [ok |-> t.ok, file |-> i])
                          ELSE results
    /\ UNCHANGED <<toolVars, batchVars, namesVars, abiVars, snapVars, procVars, fetchPc, fetchRet>>

\* the backoff sleep of a future ends
BackoffElapsed(i) ==
    /\ fetchPc = "downloading"
    /\ tasks[i].st = "backoff"
    /\ tasks' = [tasks EXCEPT ![i] = Retry(@)]
    /\ UNCHANGED <<toolVars, batchVars, namesVars, abiVars, snapVars, procVars, fetchPc, fetchRet, results>>

\* the sleep after a successful download ends: the future returns Ok
CooldownElapsed(i) ==
    /\ fetchPc = "downloading"
    /\ tasks[i].st = "cooling"
    /\ tasks' = [tasks EXCEPT ![i] = Cooled(@)]
    /\ results' = Append(results, [ok |-> TRUE, file |-> i])
    /\ UNCHANGED <<toolVars, batchVars, namesVars, abiVars, snapVars, procVars, fetchPc, fetchRet>>

\* A plausible slip: the first failed file ends the batch.
CollectResultsFailFast ==
    /\ fetchPc = "downloading"
    /\ \/ \A i \in DOMAIN tasks : tasks[i].st = "done"
       \/ \E i \in DOMAIN tasks : tasks[i].st = "done" /\ ~tasks[i].ok
    /\ fetchRet' = BatchResult(results)
    /\ fetchPc' = "returned"
    /\ UNCHANGED <<toolVars, batchVars, namesVars, abiVars, snapVars, procVars, tasks, results>>

\* collect() is complete: the counts and the Result of the batch
CollectResults ==
    /\ fetchPc = "downloading"
    /\ \A i \in DOMAIN tasks : tasks[i].st = "done"
    /\ fetchRet' = BatchResult(results)
    /\ fetchPc' = "returned"
    /\ UNCHANGED <<toolVars, batchVars, namesVars, abiVars, snapVars, procVars, tasks, results>>

\* A plausible slip: a revision still unresolved after the fetch is
\* reported and answered with Ok.
AfterFetchNotFoundIsOk ==
    /\ pc = "fetching"
    /\ fetchPc = "returned"
    /\ IF fetchRet.ret = "Ok"
       THEN \E rv \in {CheckRepositoryRevision(RepoId, cache, pArgs.revision)} :
                /\ repoCheck' = rv
                /\ IF ~rv.ok
                   THEN /\ procRet' = ProcReturn("Err", << >>)
                        /\ UNCHANGED <<snapRet, variantsCell>>
                   ELSE IF ~rv.valid
                   THEN /\ procRet' = ProcReturn("Ok",
                                          <<ErrorOutput(RepoId, "not_found", outFormat)>>)
                        /\ UNCHANGED <<snapRet, variantsCell>>
                   ELSE ProcessSnapshotStep(rv)
       ELSE /\ procRet' = ProcReturn("Ok", <<ErrorOutput(RepoId, "fetch_failed", outFormat)>>)
            /\ UNCHANGED <<snapRet, variantsCell, repoCheck>>
    /\ pc' = "done"
    /\ UNCHANGED <<toolVars, batchVars, namesVars, abiVars, remote, rocmFeature, outFormat, snapPc,
                   cache, hub, pArgs, fetchVars>>

\* A plausible slip: after a failed fetch the snapshot the cache already
\* holds is processed.
AfterFetchFallsBackToLocal ==
    /\ pc = "fetching"
    /\ fetchPc = "returned"
    /\ \E rv \in {CheckRepositoryRevision(RepoId, cache, pArgs.revision)} :
        IF fetchRet.ret = "Ok" \/ (rv.ok /\ rv.valid)
        THEN /\ repoCheck' = rv
             /\ IF ~rv.ok
                THEN /\ procRet' = ProcReturn("Err", << >>)
                     /\ UNCHANGED <<snapRet, variantsCell>>
                ELSE IF ~rv.valid
                THEN /\ procRet' = ProcReturn("RepositoryNotFound",
                                       <<ErrorOutput(RepoId, "not_found", outFormat)>>)
                     /\ UNCHANGED <<snapRet, variantsCell>>
                ELSE ProcessSnapshotStep(rv)
        ELSE /\ procRet' = ProcReturn("Ok", <<ErrorOutput(RepoId, "fetch_failed", outFormat)>>)
             /\ UNCHANGED <<snapRet, variantsCell, repoCheck>>
    /\ pc' = "done"
    /\ UNCHANGED <<toolVars, batchVars, namesVars, abiVars, remote, rocmFeature, outFormat, snapPc,
                   cache, hub, pArgs, fetchVars>>

\* process_repository from the return of fetch_repository to its own
AfterFetch ==
    /\ pc = "fetching"
    /\ fetchPc = "returned"
    /\ IF fetchRet.ret = "Ok"
       THEN \E rv \in {CheckRepositoryRevision(RepoId, cache, pArgs.revision)} :
                /\ repoCheck' = rv
                /\ IF ~rv.ok
                   THEN /\ procRet' = ProcReturn("Err", << >>)
                        /\ UNCHANGED <<snapRet, variantsCell>>
                   ELSE IF ~rv.valid
                   THEN /\ procRet' = ProcReturn("RepositoryNotFound",
                                          <<ErrorOutput(RepoId, "not_found", outFormat)>>)
                        /\ UNCHANGED <<snapRet, variantsCell>>
                   ELSE ProcessSnapshotStep(rv)
       ELSE /\ procRet' = ProcReturn("Ok", <<ErrorOutput(RepoId, "fetch_failed", outFormat)>>)
            /\ UNCHANGED <<snapRet, variantsCell, repoCheck>>
    /\ pc' = "done"
    /\ UNCHANGED <<toolVars, batchVars, namesVars, abiVars, remote, rocmFeature, outFormat, snapPc,
                   cache, hub, pArgs, fetchVars>>

Next ==
    \/ CallProcessRepository
    \/ FetchBegin
    \/ RunHubCli
    \/ RepoInfo
    \/ StartDownload
    \/ \E i \in DOMAIN tasks : DownloadOk(i)
    \/ \E i \in DOMAIN tasks : DownloadErr(i)
    \/ \E i \in DOMAIN tasks : BackoffElapsed(i)
    \/ \E i \in DOMAIN tasks : CooldownElapsed(i)
    \/ CollectResults
    \/ AfterFetch

Spec == Init /\ [][Next]_vars

(***************************************************************************)
(* Claims checked under SpecSnapshot                                       *)
(***************************************************************************)
SnapReported == snapPc = "returned" /\ snapRet.ret = "Ok"

\* the names of the subdirectories of build/
VariantDirNames ==
    IF BuildName \in DOMAIN snapshot.entries /\ BuildOf(snapshot).isDir
    THEN {d \in DOMAIN BuildOf(snapshot).entries : BuildOf(snapshot).entries[d].isDir}
    ELSE {}

ExactlyFiveFields(name) == Len(Split(name, Dash)) = 5

\* C1 as stated: cuda_compatible is reported TRUE exactly when every name of
\* the matrix CUDA list is the name of a variant directory under build/.
C1_CudaCompatibleIffAllDirsExist ==
    SnapReported =>
        (snapRet.out.cuda.compatible
            <=> \A i \in 1..Len(variantsCell.cuda) : variantsCell.cuda[i] \in VariantDirNames)

\* C7 as stated: the subdirectories counted as build variants are exactly
\* those whose name has exactly five dash-separated fields, each counted
\* under its own name.
C7_CountedIffRoundTrips ==
    (snapPc = "returned" /\ snapRet.ret \in {"Ok", "panic"}) =>
        /\ \A i \in 1..Len(snapRet.variant_strings) :
               /\ snapRet.variant_strings[i] \in VariantDirNames
               /\ ExactlyFiveFields(snapRet.variant_strings[i])
        /\ Len(snapRet.variant_strings)
               = Cardinality({d \in VariantDirNames : ExactlyFiveFields(d)})

(***************************************************************************)
(* Claims checked under SpecAbi                                            *)
(***************************************************************************)
\* the binaries of the files with extension "so" anywhere below a directory
RECURSIVE SoBinsUnder(_)
SoBinsUnder(node) ==
    IF ~node.isDir THEN {}
    ELSE UNION {IF node.entries[n].isDir THEN SoBinsUnder(node.entries[n])
                ELSE IF Extension(n) = SoExt THEN {node.entries[n].bin} ELSE {} :
                n \in DOMAIN node.entries}

Violates(bin) ==
    \/ CheckManylinux(abiArgs.manylinux_version, bin.symbols) # {}
    \/ CheckPythonAbi(abiArgs.python_abi_version, bin.symbols) # {}

AbiReported == abiPc = "returned" /\ abiRet.ok

\* C2 as stated: for both values of show_violations a variant is reported
\* is_compatible = TRUE exactly when none of its shared objects produced a
\* manylinux or Python ABI violation.
C2_CompatibleIffNoViolation ==
    AbiReported =>
        \A i \in 1..Len(abiRet.variants) :
            abiRet.variants[i].is_compatible
                <=> \A b \in SoBinsUnder(BuildOf(snapshot).entries[abiRet.variants[i].name]) :
                        ~Violates(b)

\* C3 as stated: overall_compatible is the conjunction of is_compatible over
\* the report's variants, the empty conjunction (TRUE) included.
C3_OverallIsConjunctionAsStated ==
    AbiReported =>
        abiRet.overall_compatible
            = (\A i \in 1..Len(abiRet.variants) : abiRet.variants[i].is_compatible)

\* C3 amended: a report that lists at least one variant has overall_compatible
\* equal to the conjunction of is_compatible over its variants; a report
\* that lists none (no build directory, or no subdirectory in it) has
\* overall_compatible = FALSE.
C3_OverallIsConjunction ==
    AbiReported =>
        abiRet.overall_compatible
            = (/\ abiRet.variants # << >>
               /\ \A i \in 1..Len(abiRet.variants) : abiRet.variants[i].is_compatible)

\* a report of two variants, one compatible and one not
C3_Witness ==
    /\ AbiReported
    /\ Len(abiRet.variants) = 2
    /\ abiRet.variants[1].is_compatible # abiRet.variants[2].is_compatible
    /\ ~abiRet.overall_compatible

\* C4: a variant directory in which find_shared_objects finds nothing is
\* reported is_compatible = TRUE, has_shared_objects = FALSE, without
\* violations, whatever the manylinux tag, the Python ABI version and
\* show_violations are, and no binary below it is handed to the oracle.
C4_VacuousCompatibility ==
    abiPc = "returned" =>
        \A n \in DOMAIN snapshot.entries : n = BuildName =>
            \A d \in DOMAIN BuildOf(snapshot).entries :
                (/\ BuildOf(snapshot).entries[d].isDir
                 /\ \A rev \in BOOLEAN :
                        FindSharedObjects(BuildOf(snapshot).entries[d], <<d>>, rev) = << >>)
                => /\ abiRet.ok =>
                        \E i \in 1..Len(abiRet.variants) :
                            abiRet.variants[i] =
                                [name |-> d, is_compatible |-> TRUE,
                                 violations |-> << >>, has_shared_objects |-> FALSE]
                   /\ \A c \in 1..Len(abiRet.calls) : abiRet.calls[c][1] # d

\* an empty variant reported beside a variant whose binary was checked and
\* found violating
C4_Witness ==
    /\ AbiReported
    /\ abiArgs.show_violations
    /\ Len(abiRet.variants) = 2
    /\ \E i, j \in 1..2 :
        /\ abiRet.variants[i].is_compatible /\ ~abiRet.variants[i].has_shared_objects
        /\ abiRet.variants[i].violations = << >>
        /\ DOMAIN BuildOf(snapshot).entries[abiRet.variants[i].name].entries = {PyName}
        /\ ~abiRet.variants[j].is_compatible
    /\ Len(abiRet.calls) = 1

(***************************************************************************)
(* Claims checked under SpecNames                                          *)
(***************************************************************************)
DashFree(s)  == \A i \in 1..Len(s) : s[i] # Dash
SlashFree(s) == \A i \in 1..Len(s) : s[i] # Slash

DashFreeVariant(v) ==
    /\ DashFree(v.torch_version) /\ DashFree(v.cxx_abi)
    /\ DashFree(v.compute_framework) /\ DashFree(v.arch) /\ DashFree(v.os)

RepoPartsPlain ==
    /\ SlashFree(nIn.org) /\ SlashFree(nIn.name)
    /\ ~Contains(nIn.org, DashDash) /\ ~Contains(nIn.name, DashDash)

EndsWithDash(s) == Len(s) > 0 /\ s[Len(s)] = Dash

\* C5 as stated: for every org and name without '/' and without "--",
\* get_repo_id_from_path of the folder built for org/name returns org/name.
C5_FolderInverseAsStated ==
    (nPc = "repoid" /\ RepoPartsPlain)
        => nStr2 = nIn.org \o <<Slash>> \o nIn.name

\* C5 amended: the inverse holds for every org and name without '/' and
\* without "--" provided org does not end with '-' (an org ending with a
\* dash runs into the "--" separator: "a-" + "--" + "b" is read back as
\* "a" / "-b").
C5_FolderInverse ==
    (nPc = "repoid" /\ RepoPartsPlain /\ ~EndsWithDash(nIn.org))
        => nStr2 = nIn.org \o <<Slash>> \o nIn.name

\* a name that starts with a single dash is read back correctly
C5_Witness ==
    /\ nPc = "repoid"
    /\ nIn.org = <<"a", "a">> /\ nIn.name = <<Dash, "a">>
    /\ nStr = ModelsPfx \o <<"a", "a", Dash, Dash, Dash, "a">>
    /\ nStr2 = <<"a", "a", Slash, Dash, "a">>

\* C6: for every variant v with dash-free fields (empty ones included),
\* from_name(v.to_string()) is Some(w) with w's five fields equal to v's,
\* and formatting w gives the same string again.
C6_VariantRoundTrip ==
    (nIn.kind = "variant" /\ DashFreeVariant(nIn.v))
        => /\ nPc \in {"parsed", "reformatted"} => nVar = Some(nIn.v)
           /\ nPc = "reformatted" => nStr2 = nStr

C6_Witness ==
    /\ nIn.kind = "variant" /\ nPc = "reformatted"
    /\ nIn.v.torch_version = <<"t">> /\ nIn.v.cxx_abi = <<"t">>
    /\ nIn.v.compute_framework = <<"t">> /\ nIn.v.arch = <<"t">>
    /\ nIn.v.os = << >>
    /\ nVar.some /\ nVar.v = nIn.v
    /\ nStr2 = <<"t", Dash, "t", Dash, "t", Dash, "t", Dash>>

(***************************************************************************)
(* Claims checked under Spec                                               *)
(***************************************************************************)
\* what is in the cache for the requested revision, read off the tree
RepoDirPath   == <<FolderName(RepoId)>>
RefFilePath   == RepoDirPath \o <<RefsName, pArgs.revision>>
RefPresent    == Exists(cache, RefFilePath)
RefReadable   == RefPresent /\ ~Lookup(cache, RefFilePath).node.isDir
NamedSnapshot == RepoDirPath \o <<SnapshotsName, Trim(Lookup(cache, RefFilePath).node.text)>>
SnapshotPresent == RefReadable /\ Exists(cache, NamedSnapshot)
BuildPresent  == SnapshotPresent /\ Exists(cache, Append(NamedSnapshot, BuildName))

\* process_repository has returned and the cache is as the last revision
\* check saw it
CheckedAtReturn ==
    /\ pArgs.entry = "process_repository"
    /\ pc = "done"
    /\ fetchPc = "off" \/ fetchRet.ret = "Ok"
    /\ repoCheck.ok

\* C8: check_repository_revision reports the cache entry valid only if the
\* ref file of the revision exists, its trimmed content names an existing
\* snapshot directory and that directory has a build subdirectory; with
\* any of the three missing it reports the entry not valid.
C8_ValidOnlyWithBuild ==
    CheckedAtReturn =>
        (repoCheck.valid <=> (RefPresent /\ SnapshotPresent /\ BuildPresent))

\* the decision of fetch_repository_async has been taken and nothing has
\* been written to the cache since
Decided ==
    \/ fetchPc \in {"cli", "info"}
    \/ fetchPc = "returned" /\ fetchRet.why = "up_to_date"

Proceeds == fetchPc \in {"cli", "info"}

\* C9: fetch_repository_async goes on to a download, instead of returning
\* early as up to date, exactly when force_fetch is set, or the ref of the
\* revision is absent, or the snapshot directory the ref names is absent,
\* or that snapshot has no build directory; the strategy, the remote and
\* the rest of the cache have no say.  (A ref that cannot be read as a
\* file ends the call with the read error before any decision.)
C9_ProceedsIffNeedsSync ==
    Decided =>
        (Proceeds <=> (pArgs.force_fetch \/ ~RefPresent \/ ~SnapshotPresent \/ ~BuildPresent))

C9_Witness ==
    /\ Proceeds
    /\ ~pArgs.force_fetch
    /\ RefPresent
    /\ SnapshotPresent
    /\ ~BuildPresent

\* what happened to the download of file i, read off its attempts
FileSucceeded(i) ==
    /\ tasks[i].st = "done"
    /\ \/ tasks[i].err = "none"
       \/ IsInitMarker(hub.files[i].name) /\ tasks[i].err = "RequestError"

FileExhausted(i) ==
    /\ tasks[i].st = "done"
    /\ tasks[i].attempts = max_retries + 1
    /\ tasks[i].err # "none"
    /\ ~(IsInitMarker(hub.files[i].name) /\ tasks[i].err = "RequestError")

BatchReturned == fetchPc = "returned" /\ fetchRet.why \in {"downloaded", "all_failed"}

\* C10: a batch of N >= 1 downloads of the direct strategy in which at
\* least one file succeeds returns Ok, whatever the order of completion,
\* with success_count + fail_count = N and fail_count the number of files
\* that failed after their last retry.
C10_PartialFailureTolerated ==
    (BatchReturned /\ Len(tasks) >= 1 /\ \E i \in DOMAIN tasks : FileSucceeded(i)) =>
        /\ fetchRet.ret = "Ok"
        /\ fetchRet.success_count + fetchRet.fail_count = Len(tasks)
        /\ fetchRet.fail_count = Cardinality({i \in DOMAIN tasks : FileExhausted(i)})

C10_Witness ==
    /\ BatchReturned
    /\ Len(tasks) = 2
    /\ FileExhausted(1)
    /\ FileSucceeded(2)
    /\ results[1].file = 2
    /\ fetchRet.ret = "Ok"
    /\ fetchRet.fail_count = 1

AllExhausted == \A i \in DOMAIN tasks : FileExhausted(i)

\* C11: when every one of the N >= 1 files of the direct strategy fails
\* after its last retry, fetch_repository_async returns the FetchError,
\* never Ok, and process_repository then prints the fetch failure and no
\* compliance report for the repository.
C11_AllFailedIsFatal ==
    (BatchReturned /\ Len(tasks) >= 1 /\ AllExhausted) =>
        /\ fetchRet.ret = "Err"
        /\ fetchRet.why = "all_failed"
        /\ (pArgs.entry = "process_repository" /\ pc = "done") =>
               /\ procRet.out = <<ErrorOutput(RepoId, "fetch_failed", outFormat)>>
               /\ snapRet = NoSnapshotReturn

C11_Witness ==
    /\ BatchReturned
    /\ Len(tasks) = 2
    /\ AllExhausted
    /\ pc = "done"
    /\ procRet.out # << >>

RECURSIVE Pow2(_)
Pow2(n) == IF n = 0 THEN 1 ELSE 2 * Pow2(n - 1)

\* the sleeps of the future of file i before its retries (the sleep that
\* follows a successful download left out)
BackoffSleeps(i) ==
    IF tasks[i].err = "none" /\ tasks[i].attempts >= 1
    THEN SubSeq(tasks[i].slept, 1, Len(tasks[i].slept) - 1)
    ELSE tasks[i].slept

\* C12: each file is attempted at most 3 times; the sleep before retry k
\* is 1000 * 2^(k-1) ms; a file is reported failed only after its third
\* failed attempt; and a successful attempt is the file's last attempt,
\* after which it is reported successful.
C12_RetryPolicy ==
    \A i \in DOMAIN tasks :
        /\ tasks[i].attempts <= 3
        /\ Len(BackoffSleeps(i)) <= 2
        /\ \A k \in 1..Len(BackoffSleeps(i)) : BackoffSleeps(i)[k] = 1000 * Pow2(k - 1)
        /\ tasks[i].st = "running" => Len(BackoffSleeps(i)) = tasks[i].attempts
        /\ (tasks[i].st = "done" /\ ~tasks[i].ok) =>
               (tasks[i].attempts = 3 /\ tasks[i].err # "none")
        /\ (tasks[i].err = "none" /\ tasks[i].attempts >= 1) =>
               /\ tasks[i].st \in {"cooling", "done"}
               /\ tasks[i].st = "done" => tasks[i].ok

C12_Witness ==
    \E i \in DOMAIN tasks :
        /\ tasks[i].st = "done"
        /\ ~tasks[i].ok
        /\ tasks[i].attempts = 3
        /\ tasks[i].slept = <<1000, 2000>>

\* C14: fetch_repository returns from the direct strategy only when every
\* file of the remote list has settled; every file has been attempted,
\* whatever happened to the others, and exactly one result per file has
\* been collected.
C14_AllSettledAtReturn ==
    BatchReturned =>
        /\ \A i \in DOMAIN tasks : tasks[i].st = "done" /\ tasks[i].attempts >= 1
        /\ Len(tasks) = Len(hub.files)
        /\ Len(results) = Len(tasks)
        /\ \A i \in DOMAIN tasks :
               Cardinality({k \in DOMAIN results : results[k].file = i}) = 1

C14_Witness ==
    /\ BatchReturned
    /\ Len(tasks) = 2
    /\ results[1].file = 1
    /\ ~results[1].ok
    /\ results[2].ok
    /\ tasks[2].attempts = 3

HasInitName(i) == Contains(JoinPath(hub.files[i].name), InitPyName)

\* C15: a request error on a file whose path contains __init__.py settles
\* the file as a success at once, with no backoff sleep and no further
\* attempt, and the file is not counted in fail_count; a file of any other
\* path whose last attempt ended in a request error is never a success.
C15_InitMarkerTolerance ==
    /\ \A i \in DOMAIN tasks :
        /\ (HasInitName(i) /\ tasks[i].err = "RequestError") =>
               /\ tasks[i].st = "done"
               /\ tasks[i].ok
               /\ Len(tasks[i].slept) = tasks[i].attempts - 1
               /\ \E k \in DOMAIN results : results[k] = [ok |-> TRUE, file |-> i]
        /\ (~HasInitName(i) /\ tasks[i].err = "RequestError") =>
               ~(tasks[i].st = "done" /\ tasks[i].ok)
    /\ BatchReturned =>
           fetchRet.fail_count =
               Cardinality({i \in DOMAIN tasks :
                   ~(HasInitName(i) /\ tasks[i].err = "RequestError")
                   /\ tasks[i].err # "none"})

C15_Witness ==
    /\ BatchReturned
    /\ Len(tasks) = 2
    /\ HasInitName(1)
    /\ tasks[1].err = "RequestError"
    /\ tasks[1].attempts = 1
    /\ tasks[2].err = "RequestError"
    /\ fetchRet.success_count = 1
    /\ fetchRet.fail_count = 1

\* process_repository has returned after handing a resolved snapshot
\* directory without build/ to process_repository_snapshot
ProcessedWithoutBuild ==
    /\ CheckedAtReturn
    /\ repoCheck.valid
    /\ ~Exists(cache, Append(repoCheck.snapshot_dir, BuildName))

\* C17: when the resolved snapshot directory has no build child,
\* processing the repository ends with BuildDirNotFound and the status
\* missing_build_dir: no panic, no compliance report, and the matrix of
\* compliant variants is not fetched.
C17_MissingBuildDir ==
    ProcessedWithoutBuild =>
        /\ procRet.ret = "BuildDirNotFound"
        /\ procRet.out = <<ErrorOutput(RepoId, "missing_build_dir", outFormat)>>
        /\ variantsCell = Uninit
        /\ ~snapRet.fetched

C17_Witness ==
    /\ ProcessedWithoutBuild
    /\ fetchRet.ret = "Ok"
    /\ remote.status # "ok"

(***************************************************************************)
(* SpecMany: the direct strategy on a remote list longer than the          *)
(* concurrency limit (fetch_repository_async, lines 299-358)               *)
(***************************************************************************)
NumManyFiles  == 11   \* files of the long remote list
MaxResponsive == 1    \* files of the long list whose download calls return

\* the i-th file of the long list
ManyFile(i, hangs) ==
    [name |-> <<[k \in 1..i |-> "f"]>>, node |-> TextNode(<< >>), hangs |-> hangs]

\* the long list, the calls of the files outside responsive never returning
ManyListing(n, responsive) == [i \in 1..n |-> ManyFile(i, i \notin responsive)]

ManyHubs ==
    {[status |-> "ok", sha |-> HashH, files |-> ManyListing(1, {1})]}
    \cup
    {[status |-> "ok", sha |-> HashH, files |-> ManyListing(NumManyFiles, r)] :
        r \in {q \in SUBSET (1..NumManyFiles) : Cardinality(q) <= MaxResponsive}}

InitMany ==
    /\ ToolOff
    /\ cache = DirNode(NoEntries)
    /\ hub \in ManyHubs
    /\ pArgs \in [entry : {"fetch_repository"}, revision : {Main},
                  force_fetch : BOOLEAN, prefer_hub_cli : {FALSE}]
    /\ pc = "off"
    /\ repoCheck = NotValid
    /\ procRet = NoProcReturn
    /\ fetchPc = "entry"
    /\ fetchRet = NoFetchReturn
    /\ tasks = << >>
    /\ results = << >>
    /\ BatchOff
    /\ NamesOff
    /\ AbiOff
    /\ SnapOff

NextMany ==
    \/ FetchBegin
    \/ RepoInfo
    \/ StartDownload
    \/ \E i \in DOMAIN tasks : DownloadOk(i)
    \/ \E i \in DOMAIN tasks : DownloadErr(i)
    \/ \E i \in DOMAIN tasks : BackoffElapsed(i)
    \/ \E i \in DOMAIN tasks : CooldownElapsed(i)
    \/ CollectResults

SpecMany == InitMany /\ [][NextMany]_vars

(***************************************************************************)
(* Claims checked under SpecMany                                           *)
(***************************************************************************)
\* the files whose download future has been started and has not returned
StartedNotSettled == {i \in DOMAIN tasks : tasks[i].st \notin {"queued", "done"}}

\* a future is polled for the first time in this step
StartsOne == \E i \in DOMAIN tasks : tasks[i].st = "queued" /\ tasks'[i].st # "queued"

\* C13: whatever the length of the remote file list, at most 10 download
\* futures are started and not yet settled, and a download starts only in
\* a state where fewer than 10 are in flight.
C13_BoundedConcurrency ==
    /\ [](Cardinality(StartedNotSettled) <= 10)
    /\ [][StartsOne => Cardinality(StartedNotSettled) < 10]_vars

C13_Witness ==
    /\ Len(tasks) > 10
    /\ Cardinality(StartedNotSettled) = 10
    /\ \E i \in DOMAIN tasks : tasks[i].st = "done"
    /\ tasks[Len(tasks)].st = "running"

(***************************************************************************)
(* SpecBatch: one run of the check command over a list of repositories.    *)
(*                                                                         *)
(* Two programs have the command.  kernel-compliance-check's               *)
(* check_repositories (main.rs, lines 100-161) hands auto_fetch to the     *)
(* library's process_repository; the process_repository with that          *)
(* parameter list is the one of compliant/src/lib.rs (lines 888-1034),     *)
(* which reads the matrix from COMPLIANT_VARIANTS.  compliant's main       *)
(* (compliant/src/main.rs, lines 181-227) calls its own process_repository *)
(* (lines 289-575), the same steps with the matrix as constants.           *)
(***************************************************************************)
Comma == ","

KernelComplianceCheck == "kernel-compliance-check"
Compliant             == "compliant"

\* repos.split(',').map(trim).filter(not empty).collect()
ParseRepos(repos) ==
    LET parts   == Split(repos, Comma)
        trimmed == [i \in 1..Len(parts) |-> Trim(parts[i])]
    IN  SelectSeq(trimmed, LAMBDA part : part # << >>)

\* how a call of process_repository ends: its Result (or its panic), what
\* it printed, the cache and the Lazy cell it leaves, and whether it went
\* to the network for the repository or for the manifest
RepositoryReturn(ret, out, cache_dir, cell, repo_fetched, manifest_fetched) ==
    [ret |-> ret, out |-> out, cache |-> cache_dir, cell |-> cell,
     repo_fetched |-> repo_fetched, manifest_fetched |-> manifest_fetched]

\* process_repository from "Re-check after potential fetch" to its return
ProcessCached(repo_id, cache_dir, args, format, cell, endpoint, enable_rocm, rev, repo_fetched) ==
    LET repo_path    == GetRepoPath(repo_id, << >>)
        ref_file     == Lookup(cache_dir, repo_path \o <<RefsName, Main>>)
        hash         == Trim(ref_file.node.text)
        snapshot_dir == Lookup(cache_dir, repo_path \o <<SnapshotsName, hash>>)
    IN  IF ~ref_file.exists
        THEN RepositoryReturn("RepositoryNotFound",
                 <<ErrorOutput(repo_id, "not_found", format)>>,
                 cache_dir, cell, repo_fetched, FALSE)
        ELSE IF ref_file.node.isDir        \* fs::read_to_string fails
        THEN RepositoryReturn("Err", << >>, cache_dir, cell, repo_fetched, FALSE)
        ELSE IF ~snapshot_dir.exists
        THEN RepositoryReturn("RepositoryNotFound",
                 <<ErrorOutput(repo_id, "missing_snapshot", format)>>,
                 cache_dir, cell, repo_fetched, FALSE)
        ELSE IF BuildName \notin DOMAIN snapshot_dir.node.entries
        THEN RepositoryReturn("BuildDirNotFound",
                 <<ErrorOutput(repo_id, "missing_build_dir", format)>>,
                 cache_dir, cell, repo_fetched, FALSE)
        ELSE LET Built(dir) == ProcessBuiltSnapshot(repo_id, dir, args, format, cell,
                                                    endpoint, enable_rocm, rev)
                 Returned(r) ==
                     RepositoryReturn(r.ret, IF r.out = NoOutput THEN << >> ELSE <<r.out>>,
                                      cache_dir, r.cell, repo_fetched, r.fetched)
             IN  AndThen(AndThen(snapshot_dir.node, Built), Returned)

\* process_repository(repo_id, cache_dir, revision, auto_fetch, ..);
\* fetched is how fetch_repository would end if it were called
ProcessRepositoryAutoFetch(repo_id, cache_dir, auto_fetch, fetched, args, format, cell, endpoint, enable_rocm, rev) ==
    LET repo_path == GetRepoPath(repo_id, << >>)
        missing   == \/ ~Exists(cache_dir, repo_path)
                     \/ ~Exists(cache_dir, repo_path \o <<RefsName, Main>>)
    IN  IF ~missing
        THEN ProcessCached(repo_id, cache_dir, args, format, cell, endpoint,
                           enable_rocm, rev, FALSE)
        ELSE IF ~auto_fetch
        THEN RepositoryReturn("RepositoryNotFound",
                 <<ErrorOutput(repo_id, "not_found", format)>>,
                 cache_dir, cell, FALSE, FALSE)
        ELSE IF ~fetched.ok
        THEN RepositoryReturn("Ok", <<ErrorOutput(repo_id, "fetch_failed", format)>>,
                              fetched.cache, cell, TRUE, FALSE)
        ELSE ProcessCached(repo_id, fetched.cache, args, format, cell, endpoint,
                           enable_rocm, rev, TRUE)

\* the files that were downloaded, each written to the cache
RECURSIVE WriteEach(_, _, _, _, _)
WriteEach(cache_dir, repo_id, revision, sha, files) ==
    IF files = << >> THEN cache_dir
    ELSE LET WriteRest(written) == WriteEach(written, repo_id, revision, sha, Tail(files))
         IN  AndThen(WriteDownloaded(cache_dir, repo_id, revision, sha, Head(files)),
                     WriteRest)

\* the files a fetch that returns Ok may have left in the cache
FetchedListings == {<< >>, <<SoFile>>, <<ReadmeFile>>}

\* the ways fetch_repository(repo_id, cache_dir, revision) can end: Err, or
\* Ok with the files that were downloaded (the library's downloads) or with
\* what huggingface-cli wrote (compliant's main)
FetchOutcomes(program, repo_id, cache_dir, revision) ==
    {[ok |-> FALSE, cache |-> cache_dir]}
    \cup
    {[ok |-> TRUE,
      cache |-> IF program = Compliant
                THEN WriteAll(cache_dir, repo_id, revision, HashH, files)
                ELSE WriteEach(cache_dir, repo_id, revision, HashH, files)] :
        files \in FetchedListings}

\* CUDA_COMPLIANT_VARIANTS / ROCM_COMPLIANT_VARIANTS of compliant/src/main.rs:
\* lists fixed at compile time, never fetched (one name stands for them)
ConstantVariants == [state |-> "init", cuda |-> <<FiveT>>, rocm |-> << >>]

\* A plausible slip: a panic is reported and the loop goes on.
LoopControlCatchesPanic(program, ret, last) ==
    IF program = Compliant /\ ret \notin {"Ok", "panic"} THEN "aborted"
    ELSE IF last THEN "done"
    ELSE "loop"

\* where the command is after a call of process_repository: a panic ends
\* the process, `?` (compliant's main) returns the Err from main, `if let
\* Err(e)` (check_repositories) prints the Err and goes on
LoopControl(program, ret, last) ==
    IF ret = "panic" THEN "panicked"
    ELSE IF program = Compliant /\ ret # "Ok" THEN "aborted"
    ELSE IF last THEN "done"
    ELSE "loop"

SecondRepoId == <<"o", Slash, "m">>

\* --repos
RepoLists ==
    {<< >>,
     RepoId,
     RepoId \o <<Comma>> \o SecondRepoId,
     SecondRepoId \o <<Comma, " ">> \o RepoId,
     RepoId \o <<Comma, Comma>> \o RepoId,
     RepoId \o <<Comma>> \o SecondRepoId \o <<Comma>> \o RepoId}

UnparseableSnapshot ==
    DirNode(Entry(BuildName,
        DirNode(Entry(FiveT, DirNode(Entry(SoName, FileNode(Unparseable)))))))

RepoFolder(refs, snapshots) ==
    DirNode(Merge(Entry(RefsName, DirNode(refs)), Entry(SnapshotsName, DirNode(snapshots))))

\* what the cache holds of one repository: nothing, or its folder with a
\* ref of dev only, with a directory at refs/main, or with a ref of main
\* beside no snapshot, a snapshot without build, a built one, or one whose
\* shared object does not parse
RepoFolders ==
    {NoEntries} \cup
    {RepoFolder(Entry(Dev, TextNode(HashH)), Entry(HashH, BuiltSnapshot)).entries,
     RepoFolder(Entry(Main, DirNode(NoEntries)), Entry(HashH, BuiltSnapshot)).entries} \cup
    {RepoFolder(Entry(Main, TextNode(HashH \o <<"\n">>)), sn).entries :
        sn \in {NoEntries, Entry(HashH, DirNode(NoEntries)), Entry(HashH, BuiltSnapshot),
                Entry(HashH, UnparseableSnapshot)}}

\* the entry of the cache directory for a repository (none when absent)
CacheEntry(repo_id, folder) ==
    IF folder = NoEntries THEN NoEntries ELSE Entry(FolderName(repo_id), DirNode(folder))

BatchCaches ==
    {DirNode(Merge(CacheEntry(RepoId, a), CacheEntry(SecondRepoId, b))) :
        a \in RepoFolders, b \in RepoFolders}

BatchRemotes ==
    ProcRemotes \cup
    {[status |-> "ok",
      manifest |-> [x86_64_linux  |-> [cuda |-> <<FiveU>>, rocm |-> << >>],
                    aarch64_linux |-> [cuda |-> << >>, rocm |-> << >>]]]}

InitBatch ==
    /\ ToolOff
    /\ bArgs \in [program : {KernelComplianceCheck, Compliant}, repos : RepoLists,
                  auto_fetch : BOOLEAN]
    /\ bPc = "start"
    /\ bRepos = << >>
    /\ bIdx = 0
    /\ bCalls = << >>
    /\ cache \in BatchCaches
    /\ remote \in BatchRemotes
    /\ hub = NoHub
    /\ pArgs \in {[NoProcArgs EXCEPT !.revision = r] : r \in Revisions}
    /\ pc = "off"
    /\ repoCheck = NotValid
    /\ procRet = NoProcReturn
    /\ fetchPc = "off"
    /\ fetchRet = NoFetchReturn
    /\ tasks = << >>
    /\ results = << >>
    /\ rocmFeature = FALSE
    /\ variantsCell = Uninit
    /\ outFormat = "Json"
    /\ snapPc = "off"
    /\ snapRet = NoSnapshotReturn
    /\ snapshot = DirNode(NoEntries)
    /\ abiArgs = [manylinux_version |-> "manylinux_2_28",
                  python_abi_version |-> [major |-> 3, minor |-> 9, patch |-> 0],
                  show_violations |-> TRUE]
    /\ abiPc = "off"
    /\ abiRet = NoAbiResult
    /\ NamesOff

\* the command up to the loop: the list is parsed, and an empty list ends
\* the command with its own message
BatchBegin ==
    /\ bPc = "start"
    /\ \E repositories \in {ParseRepos(bArgs.repos)} :
        /\ bRepos' = repositories
        /\ bPc' = IF repositories = << >> THEN "done" ELSE "loop"
    /\ bIdx' = 1
    /\ UNCHANGED <<toolVars, namesVars, abiVars, snapVars, procVars, fetchVars, bArgs, bCalls>>

\* the cache chain of a repository as the call finds it: refs/main, and
\* the build directory of the snapshot it names
ChainOf(cache_dir, repo_id) ==
    LET repo_path    == GetRepoPath(repo_id, << >>)
        ref_file     == Lookup(cache_dir, repo_path \o <<RefsName, Main>>)
        snapshot_dir == repo_path \o <<SnapshotsName, Trim(ref_file.node.text)>>
    IN  [ref   |-> ref_file.exists,
         build |-> ref_file.exists /\ Exists(cache_dir, Append(snapshot_dir, BuildName))]

\* one turn of the loop: process_repository on the next id, to its return
BatchStep ==
    /\ bPc = "loop"
    /\ \E rev \in BOOLEAN, repo_id \in {bRepos[bIdx]} :
        \E fetched \in FetchOutcomes(bArgs.program, repo_id, cache, pArgs.revision) :
            \E r \in {ProcessRepositoryAutoFetch(repo_id, cache, bArgs.auto_fetch, fetched,
                          abiArgs, outFormat,
                          IF bArgs.program = Compliant THEN ConstantVariants
                          ELSE variantsCell,
                          remote, rocmFeature, rev)} :
                /\ cache' = r.cache
                /\ variantsCell' = IF bArgs.program = Compliant THEN variantsCell ELSE r.cell
                /\ bCalls' = Append(bCalls,
                                 [repo_id |-> repo_id, ret |-> r.ret, out |-> r.out,
                                  found |-> ChainOf(cache, repo_id),
                                  repo_fetched |-> r.repo_fetched,
                                  manifest_fetched |-> r.manifest_fetched,
                                  cell |-> r.cell])
                /\ bPc' = LoopControl(bArgs.program, r.ret, bIdx = Len(bRepos))
    /\ bIdx' = bIdx + 1
    /\ UNCHANGED <<toolVars, namesVars, abiVars, remote, rocmFeature, outFormat, snapPc, snapRet,
                   hub, pArgs, pc, repoCheck, procRet, fetchVars, bArgs, bRepos>>

\* build-variants.json is edited, or the endpoint goes down or comes back,
\* while the command runs
RemoteChanges ==
    /\ bPc = "loop"
    /\ remote' \in BatchRemotes \ {remote}
    /\ UNCHANGED <<toolVars, namesVars, abiVars, rocmFeature, variantsCell, outFormat, snapPc,
                   snapRet, procVars, fetchVars, batchVars>>

NextBatch ==
    \/ BatchBegin
    \/ BatchStep
    \/ RemoteChanges

SpecBatch == InitBatch /\ [][NextBatch]_vars

(***************************************************************************)
(* Claims checked under SpecBatch                                          *)
(***************************************************************************)
\* the command has returned from main (a panic does not return)
BatchEnded == bPc \in {"done", "aborted"}

\* C16: for every list of repository ids given to check,
\* process_repository is called exactly once for each id, in list order,
\* whatever the Result of the calls before it was (RepositoryNotFound,
\* BuildDirNotFound, a fetch failure, a parse or ABI check error).
C16_EveryIdProcessedOnce ==
    BatchEnded =>
        /\ Len(bCalls) = Len(bRepos)
        /\ \A i \in DOMAIN bCalls : bCalls[i].repo_id = bRepos[i]

\* the call found refs/main in the cache and no build directory under the
\* snapshot it names
RefWithoutBuild(call) == call.found.ref /\ ~call.found.build

\* C18: with auto-fetch disabled, a repository whose refs/main exists
\* while snapshots/<hash>/build does not (the snapshot missing, or present
\* without build) is answered with the status not_found, and neither the
\* repository nor the manifest is fetched.
C18_NotFoundWithoutNetwork ==
    \A i \in DOMAIN bCalls :
        (~bArgs.auto_fetch /\ RefWithoutBuild(bCalls[i])) =>
            /\ Len(bCalls[i].out) = 1
            /\ bCalls[i].out[1].status = "not_found"
            /\ ~bCalls[i].repo_fetched
            /\ ~bCalls[i].manifest_fetched

\* the calls that fetched the manifest
ManifestFetches == {i \in DOMAIN bCalls : bCalls[i].manifest_fetched}

\* the (cuda, rocm) lists a compliance report was judged against
ReportedAgainst(out) ==
    /\ out.status = "success"
    /\ \A k \in DOMAIN out.cuda.present : SeqContains(variantsCell.cuda, out.cuda.present[k])
    /\ \A k \in DOMAIN out.cuda.missing : SeqContains(variantsCell.cuda, out.cuda.missing[k])
    /\ Len(out.cuda.present) + Len(out.cuda.missing) = Len(variantsCell.cuda)

\* C19: over the calls of process_repository of one process the manifest
\* is fetched at most once; from the first successful fetch on every call
\* leaves the same (cuda, rocm) lists in the cell, and every compliance
\* report is judged against those lists.
C19_MatrixFetchedOnce ==
    bArgs.program = KernelComplianceCheck =>
        /\ Cardinality(ManifestFetches) <= 1
        /\ \A i \in DOMAIN bCalls :
               bCalls[i].cell.state = "init" => bCalls[i].cell = variantsCell
        /\ \A i \in DOMAIN bCalls :
               (bCalls[i].out # << >> /\ bCalls[i].out[1].status = "success") =>
                   ReportedAgainst(bCalls[i].out[1])

C19_Witness ==
    /\ bArgs.program = KernelComplianceCheck
    /\ Len(bCalls) = 2
    /\ bCalls[1].manifest_fetched
    /\ bCalls[1].out # << >> /\ bCalls[1].out[1].status = "success"
    /\ bCalls[2].out # << >> /\ bCalls[2].out[1].status = "success"
    /\ remote.status = "ok"
    /\ remote.manifest.x86_64_linux.cuda # variantsCell.cuda

\* the matrix load failed in this call
LoadFailed(call) == call.manifest_fetched /\ call.cell.state # "init"

\* C20: a failed load of the matrix ends the whole run: the call in which
\* it fails panics, it is the last call of the run, the loop does not go
\* on, and neither that repository nor a later one gets a compliance
\* report.
C20_MatrixFailureIsFatal ==
    \A i \in DOMAIN bCalls :
        LoadFailed(bCalls[i]) =>
            /\ bCalls[i].ret = "panic"
            /\ bCalls[i].out = << >>
            /\ i = Len(bCalls)
            /\ bPc = "panicked"

C20_Witness ==
    /\ Len(bRepos) = 3
    /\ Len(bCalls) = 2
    /\ bCalls[1].ret = "BuildDirNotFound"
    /\ LoadFailed(bCalls[2])
    /\ bPc = "panicked"

\* the status the process ends with: main returns Ok(()) (0), main returns
\* an Err (1), or the process panics (101)
ExitStatus(at) ==
    IF at = "done" THEN 0
    ELSE IF at = "aborted" THEN 1
    ELSE 101

\* the process of the command is over
ProcessExited == bPc \in {"done", "aborted", "panicked"}

\* the run met an error that is not the failure of one repository: no id
\* was left in the list, or the matrix could not be loaded
HardError == bRepos = << >> \/ \E i \in DOMAIN bCalls : LoadFailed(bCalls[i])

\* C21: the exit status of check is non-zero exactly when the run met a
\* hard error (among them: the list of ids is empty after trimming and
\* dropping empty entries), and zero when the only failures were failures
\* of single repositories.
C21_ExitStatus ==
    ProcessExited => (ExitStatus(bPc) # 0 <=> HardError)

(***************************************************************************)
(* Claims checked under Spec: the outcomes of process_repository           *)
(***************************************************************************)
\* process_repository has returned after a fetch that returned Ok, and the
\* cache as the fetch left it does not resolve the requested revision
StillNotReadyAfterFetch ==
    /\ pc = "done"
    /\ fetchPc = "returned"
    /\ fetchRet.ret = "Ok"
    /\ CheckRepositoryRevision(RepoId, cache, pArgs.revision).ok
    /\ ~CheckRepositoryRevision(RepoId, cache, pArgs.revision).valid

\* C23: when the fetch returns Ok and the re-resolve that follows still
\* finds the entry not ready, process_repository prints one not_found
\* result, returns RepositoryNotFound (no panic), does not start the fetch
\* again, and neither scans nor reports the repository.
C23_StillNotReadyAfterFetch ==
    StillNotReadyAfterFetch =>
        /\ procRet = ProcReturn("RepositoryNotFound",
                                <<ErrorOutput(RepoId, "not_found", outFormat)>>)
        /\ procRet.out[1].status = "not_found"
        /\ fetchPc = "returned"
        /\ snapRet = NoSnapshotReturn
        /\ variantsCell = Uninit

\* the remote repository lists no file: the direct strategy returns Ok
\* without writing anything, and the revision is as unresolved as before
C23_Witness ==
    /\ StillNotReadyAfterFetch
    /\ ~pArgs.prefer_hub_cli
    /\ hub.status = "ok"
    /\ fetchRet.why # "up_to_date"
    /\ procRet.ret = "RepositoryNotFound"

\* process_repository has returned after a fetch that returned an Err
ReturnedAfterFailedFetch ==
    /\ pc = "done"
    /\ fetchPc = "returned"
    /\ fetchRet.ret = "Err"

\* C28: whenever the fetch returns an Err, also when force_fetch was asked
\* for over a complete valid cache entry, process_repository prints one
\* fetch_failed result, neither scans nor reports the repository (the
\* snapshot the cache holds is not used), and returns Ok.
C28_FetchFailureOutcome ==
    ReturnedAfterFailedFetch =>
        /\ procRet = ProcReturn("Ok", <<ErrorOutput(RepoId, "fetch_failed", outFormat)>>)
        /\ snapRet = NoSnapshotReturn
        /\ variantsCell = Uninit

\* force_fetch over a cache entry that resolves to a built snapshot, and
\* the fetch fails
C28_Witness ==
    /\ ReturnedAfterFailedFetch
    /\ pArgs.force_fetch
    /\ CheckRepositoryRevision(RepoId, cache, pArgs.revision).valid
    /\ UpToDate(RepoId, cache, pArgs.revision, FALSE) = "up_to_date"
    /\ procRet.ret = "Ok"

\* the direct strategy is at work on a remote repository that lists no file
DirectOnEmptyListing ==
    /\ ~pArgs.prefer_hub_cli
    /\ hub.status = "ok"
    /\ hub.files = << >>
    /\ fetchPc \in {"downloading", "returned"}
    /\ fetchRet.why \notin {"up_to_date", "ref_unreadable"}

\* C29: when the remote file list is empty, the direct strategy starts no
\* download and returns Ok with success_count = 0 and fail_count = 0.
C29_EmptyListingIsSuccess ==
    DirectOnEmptyListing =>
        /\ tasks = << >>
        /\ results = << >>
        /\ fetchPc = "returned" => fetchRet = FetchReturn("Ok", "downloaded", 0, 0)

C29_Witness ==
    /\ DirectOnEmptyListing
    /\ fetchPc = "returned"
    /\ fetchRet.ret = "Ok"
    /\ fetchRet.success_count = 0
    /\ fetchRet.fail_count = 0

\* process_repository has printed the compliance report of the repository
Reported ==
    /\ pc = "done"
    /\ procRet.out # << >>
    /\ procRet.out[1].status = "success"

\* where the run of process_repository is: before the first resolve, in
\* the fetch, or returned with the report or without one
ProcPhase ==
    IF pc = "start" THEN "Unresolved"
    ELSE IF pc = "fetching" THEN "Syncing"
    ELSE IF pc = "done" /\ Reported THEN "Reported"
    ELSE IF pc = "done" THEN "Exited"
    ELSE "none"

\* the steps between phases the order Unresolved, Syncing, Resolved,
\* Scanned, Reported allows (Resolved and Scanned are passed within the
\* step that ends the run)
PhaseStep ==
    \/ ProcPhase' = ProcPhase
    \/ ProcPhase = "Unresolved" /\ ProcPhase' \in {"Syncing", "Reported", "Exited"}
    \/ ProcPhase = "Syncing" /\ ProcPhase' \in {"Reported", "Exited"}

\* the fetch is entered from the first resolve only, and is over when the
\* run goes on
OneFetchStep ==
    /\ (fetchPc # "entry" /\ fetchPc' = "entry") => (pc = "start" /\ pc' = "fetching")
    /\ (pc = "fetching" /\ pc' # "fetching") => (fetchPc = "returned" /\ pc' = "done")
    /\ pc = "done" => UNCHANGED <<pc, procRet, fetchPc, fetchRet, cache>>

\* nothing is printed before the return, at most one result at it, and a
\* report stands on a resolved revision, a fetch that (if any) returned
\* Ok, and a scan of the snapshot resolved to
ReportFacts ==
    /\ pc # "done" => procRet = NoProcReturn
    /\ Len(procRet.out) <= 1
    /\ Reported =>
        /\ procRet.ret = "Ok"
        /\ fetchPc \in {"off", "returned"}
        /\ fetchPc = "returned" => fetchRet.ret = "Ok"
        /\ CheckRepositoryRevision(RepoId, cache, pArgs.revision).valid
        /\ repoCheck = CheckRepositoryRevision(RepoId, cache, pArgs.revision)
        /\ snapRet.ret = "Ok"
        /\ snapRet.out = procRet.out[1]
        /\ snapRet.out.abi.ok

\* the run ended without a report, by a returned Err or by the printed
\* error result of a failed fetch
StructuredErrorExit ==
    /\ pc = "done"
    /\ ~Reported
    /\ \/ procRet.ret \in {"RepositoryNotFound", "BuildDirNotFound", "Err"}
       \/ /\ procRet.ret = "Ok"
          /\ procRet.out = <<ErrorOutput(RepoId, "fetch_failed", outFormat)>>

\* the run ended in the panic of the matrix load
PanicExit == pc = "done" /\ ~Reported /\ procRet.ret = "panic" /\ procRet.out = << >>

\* C22 as stated: every run of process_repository ends in Reported or in a
\* structured-error exit, and a report is printed at most once, only at
\* the return, after the fetch (if any) returned Ok and the revision
\* resolved.
C22_PhaseOrderAsStated ==
    /\ ReportFacts
    /\ pc = "done" => (Reported \/ StructuredErrorExit)

\* C22 amended: every run of process_repository passes through Unresolved,
\* optionally Syncing, then Resolved, Scanned, Reported in that order; it
\* ends in Reported, in a structured-error exit, or in the panic of a
\* failed matrix load; it enters the fetch at most once; it prints at most
\* one result, and a report only after the fetch (if any) returned Ok and
\* the re-resolve succeeded.
C22_PhaseOrder ==
    /\ [](ReportFacts /\ (pc = "done" => (Reported \/ StructuredErrorExit \/ PanicExit)))
    /\ [][PhaseStep /\ OneFetchStep]_vars

\* a run that went through the fetch and ended with the report
C22_Witness ==
    /\ Reported
    /\ fetchPc = "returned"
    /\ fetchRet.why \in {"downloaded", "cli"}
    /\ snapRet.ret = "Ok"

(***************************************************************************)
(* Claims checked under SpecSnapshot: the matrix and the JSON result       *)
(***************************************************************************)
\* no element of the sequence stands at two places
NoRepeat(s) == \A i, j \in DOMAIN s : s[i] = s[j] => i = j

\* the names a list of the manifest holds
NamesOf(s) == {s[i] : i \in DOMAIN s}

\* C26: the CUDA list the matrix load produces contains every CUDA variant
\* name listed under an architecture of the manifest, and no name twice,
\* also when x86_64-linux and aarch64-linux list the same name.
C26_MatrixFlattening ==
    (variantsCell.state = "init" /\ remote.status = "ok") =>
        /\ NamesOf(variantsCell.cuda)
               = NamesOf(remote.manifest.x86_64_linux.cuda)
                     \cup NamesOf(remote.manifest.aarch64_linux.cuda)
        /\ NoRepeat(variantsCell.cuda)

\* present and missing split the matrix list: by names, each name of the
\* matrix in exactly one of them and no other name in either; by entries,
\* each entry of the matrix in one of them once; and compatible says
\* that nothing is missing
Partitions(matrix_variants, status) ==
    /\ \A n \in NamesOf(matrix_variants) :
           (n \in NamesOf(status.present)) # (n \in NamesOf(status.missing))
    /\ NamesOf(status.present) \cup NamesOf(status.missing) \subseteq NamesOf(matrix_variants)
    /\ Len(status.present) + Len(status.missing) = Len(matrix_variants)
    /\ status.compatible <=> status.missing = << >>

\* process_repository_snapshot has printed a JSON success result
JsonSuccess ==
    /\ snapPc = "returned"
    /\ snapRet.ret = "Ok"
    /\ snapRet.out.format = "Json"
    /\ snapRet.out.status = "success"

\* C30: in every JSON success result the CUDA lists present and missing
\* partition the matrix CUDA list and compatible is true exactly when
\* missing is empty; the same for ROCm when it is enabled.
C30_PresentMissingPartition ==
    JsonSuccess =>
        /\ Partitions(variantsCell.cuda, snapRet.out.cuda)
        /\ snapRet.out.rocm_enabled = rocmFeature
        /\ rocmFeature => Partitions(variantsCell.rocm, snapRet.out.rocm)

\* a result with one matrix name present and another missing, for CUDA and
\* for ROCm
C30_Witness ==
    /\ JsonSuccess
    /\ rocmFeature
    /\ snapRet.out.cuda.present # << >>
    /\ snapRet.out.cuda.missing # << >>
    /\ ~snapRet.out.cuda.compatible
    /\ snapRet.out.rocm.present # << >>
    /\ snapRet.out.rocm.compatible

(***************************************************************************)
(* SpecFind: one call of find_shared_objects on a path of a file system    *)
(***************************************************************************)
MaxDirEntries == 2

ASoName   == <<"a", ".", "s", "o">>
BSoName   == <<"b", ".", "s", "o">>
DotSoName == <<".", "s", "o">>
Absent    == <<"z">>

FindNames == {ASoName, BSoName, DotSoName}

\* the directories with at most MaxDirEntries entries, named by FindNames,
\* each one of the given nodes
DirsOver(nodes) ==
    {DirNode(f) :
        f \in UNION {[S -> nodes] :
                        S \in {T \in SUBSET FindNames : Cardinality(T) <= MaxDirEntries}}}

FindLevel1 == {FileNode(NoBin)} \cup DirsOver({FileNode(NoBin)})

\* a directory three levels deep
DeepTree ==
    DirNode(Entry(ASoName,
        DirNode(Entry(BSoName,
            DirNode(Merge(Entry(ASoName, FileNode(NoBin)),
                          Entry(DotSoName, FileNode(NoBin))))))))

\* the file systems: files and directories, directories named like shared
\* objects among them
FindRoots == DirsOver(FindLevel1) \cup {DeepTree}

\* the paths handed to the call: the root, an entry of it (a file, a
\* directory, or nothing), an entry below, a name that does not exist
FindDirs == {<< >>, <<ASoName>>, <<ASoName, BSoName>>, <<Absent>>}

InitFind ==
    /\ ProcOff
    /\ findArgs \in [root : FindRoots, dir : FindDirs]
    /\ findPc = "call"
    /\ findRet = NoFindReturn
    /\ snapshot = DirNode(NoEntries)
    /\ abiArgs = [manylinux_version |-> "manylinux_2_28",
                  python_abi_version |-> [major |-> 3, minor |-> 9, patch |-> 0],
                  show_violations |-> TRUE]
    /\ abiPc = "off"
    /\ abiRet = NoAbiResult
    /\ SnapOff
    /\ NamesOff

CallFindSharedObjects ==
    /\ findPc = "call"
    /\ \E rev \in BOOLEAN :
        \E so_files \in {FindSharedObjectsAt(findArgs.root, findArgs.dir, rev)} :
            findRet' = [ok |-> TRUE,
                        so_files |-> [i \in DOMAIN so_files |-> so_files[i].path]]
    /\ findPc' = "returned"
    /\ UNCHANGED <<cliVars, batchVars, namesVars, abiVars, snapVars, procVars, fetchVars,
                   findArgs>>

NextFind == CallFindSharedObjects

SpecFind == InitFind /\ [][NextFind]_vars

\* the files (nodes that are no directory) below a node, by their paths
RECURSIVE FilesUnder(_, _)
FilesUnder(node, path) ==
    IF ~node.isDir THEN {path}
    ELSE UNION {FilesUnder(node.entries[n], Append(path, n)) : n \in DOMAIN node.entries}

\* the path names a directory of the file system
IsDirectory(root, dir) == Exists(root, dir) /\ Lookup(root, dir).node.isDir

\* C25: on a finite directory tree find_shared_objects(dir) returns
\* exactly the files at any depth under dir whose extension is "so", each
\* once; for a path that does not exist or is no directory it returns the
\* empty list; in neither case an error.
C25_SharedObjectDiscovery ==
    findPc = "returned" =>
        /\ findRet.ok
        /\ IF IsDirectory(findArgs.root, findArgs.dir)
           THEN /\ NamesOf(findRet.so_files)
                       = {p \in FilesUnder(Lookup(findArgs.root, findArgs.dir).node,
                                           findArgs.dir) :
                              Extension(p[Len(p)]) = SoExt}
                /\ NoRepeat(findRet.so_files)
           ELSE findRet.so_files = << >>

\* shared objects found at the third level, below a directory whose own
\* name ends in .so, beside a file .so that has no extension
C25_Witness ==
    /\ findPc = "returned"
    /\ findArgs.root = DeepTree
    /\ findArgs.dir = << >>
    /\ findRet.so_files = <<<<ASoName, BSoName, ASoName>>>>

(***************************************************************************)
(* Claims checked under SpecBatch: the revision of the call                *)
(***************************************************************************)
\* the last call of process_repository fetched the repository, the fetch
\* returned Ok, and the cache now resolves the requested revision of that
\* repository: refs/<revision> names a snapshot that exists
FetchedRequestedRevision ==
    /\ bCalls # << >>
    /\ bCalls[Len(bCalls)].repo_fetched
    /\ \A k \in DOMAIN bCalls[Len(bCalls)].out :
           bCalls[Len(bCalls)].out[k].status # "fetch_failed"
    /\ CheckRepositoryRevision(bCalls[Len(bCalls)].repo_id, cache, pArgs.revision).valid

\* C27: process_repository resolves the cache through refs/<revision> of
\* the revision it was called with and passes to the fetch: after a fetch
\* that returned Ok and left refs/<revision> with its snapshot, the call
\* does not answer not found.
C27_RevisionConsistency ==
    FetchedRequestedRevision =>
        /\ bCalls[Len(bCalls)].ret # "RepositoryNotFound"
        /\ \A k \in DOMAIN bCalls[Len(bCalls)].out :
               bCalls[Len(bCalls)].out[k].status \notin {"not_found", "missing_snapshot"}

(***************************************************************************)
(* SpecCli: fetch_repository_async with prefer_hub_cli, the subprocess and *)
(* the two reader threads step by step                                     *)
(***************************************************************************)
MaxStderrLines == 2     \* lines the tool writes to stderr
PipeCapacity   == 1     \* lines a pipe holds before the writer blocks

\* a line that is not valid UTF-8: BufRead::lines yields an Err for it
InvalidLine == "not-utf8"
Newline     == "\n"

StdoutScripts == {<< >>, <<"o">>, <<InvalidLine, "o">>}
StderrScripts == StringsUpTo({"e", "f", InvalidLine}, MaxStderrLines)

\* the tool as spawned: what it will write, and the status it ends with
\* when it is not killed before (zero only when the Hub serves the
\* repository)
ChildScripts ==
    [state : {"running"},
     status : {1} \cup (IF hub.status = "ok" THEN {0} ELSE {}),
     out : StdoutScripts, err : StderrScripts]

CliCaches ==
    {DirNode(NoEntries),
     DirNode(Entry(FolderName(RepoId),
                   RepoFolder(Entry(Main, TextNode(HashH)), Entry(HashH, BuiltSnapshot))))}

InitCli ==
    /\ FindOff
    /\ BatchOff
    /\ CliOff
    /\ cache \in CliCaches
    /\ hub \in {NoHub, [status |-> "ok", sha |-> HashH, files |-> <<SoFile>>]}
    /\ pArgs \in [entry : {"fetch_repository"}, revision : Revisions,
                  force_fetch : BOOLEAN, prefer_hub_cli : {TRUE}]
    /\ pc = "off"
    /\ repoCheck = NotValid
    /\ procRet = NoProcReturn
    /\ fetchPc = "entry"
    /\ fetchRet = NoFetchReturn
    /\ tasks = << >>
    /\ results = << >>
    /\ snapshot = DirNode(NoEntries)
    /\ abiArgs = [manylinux_version |-> "manylinux_2_28",
                  python_abi_version |-> [major |-> 3, minor |-> 9, patch |-> 0],
                  show_violations |-> TRUE]
    /\ abiPc = "off"
    /\ abiRet = NoAbiResult
    /\ SnapOff
    /\ NamesOff

\* cmd.spawn(): an Err is returned at once; else the child runs and the
\* two reader threads are started
SpawnHubCli ==
    /\ fetchPc = "cli"
    /\ \/ /\ fetchRet' = FetchReturn("Err", "spawn_failed", 0, 0)
          /\ fetchPc' = "returned"
          /\ UNCHANGED <<childProc, stdoutReader, stderrReader>>
       \/ /\ childProc' \in ChildScripts
          /\ stdoutReader' = [NoReader EXCEPT !.st = "reading"]
          /\ stderrReader' = [NoReader EXCEPT !.st = "reading"]
          /\ fetchPc' = "cli_wait"
          /\ UNCHANGED fetchRet
    /\ UNCHANGED <<findVars, batchVars, namesVars, abiVars, snapVars, procVars, tasks,
                   results, pipes, cliMsg>>

\* the child writes its next line to stdout: into the pipe when there is
\* room; when the reader has dropped its end the write fails, and the
\* child goes on without the line or is killed by it
ChildWritesStdout ==
    /\ childProc.state = "running"
    /\ childProc.out # << >>
    /\ IF stdoutReader.st = "finished"
       THEN /\ \/ childProc' = [childProc EXCEPT !.out = Tail(@)]
               \/ childProc' = [childProc EXCEPT !.state = "exited", !.status = 1]
            /\ UNCHANGED pipes
       ELSE /\ Len(pipes.out) < PipeCapacity
            /\ pipes' = [pipes EXCEPT !.out = Append(@, Head(childProc.out))]
            /\ childProc' = [childProc EXCEPT !.out = Tail(@)]
    /\ UNCHANGED <<findVars, batchVars, namesVars, abiVars, snapVars, procVars, fetchVars,
                   stdoutReader, stderrReader, cliMsg>>

\* the same for stderr
ChildWritesStderr ==
    /\ childProc.state = "running"
    /\ childProc.err # << >>
    /\ IF stderrReader.st = "finished"
       THEN /\ \/ childProc' = [childProc EXCEPT !.err = Tail(@)]
               \/ childProc' = [childProc EXCEPT !.state = "exited", !.status = 1]
            /\ UNCHANGED pipes
       ELSE /\ Len(pipes.err) < PipeCapacity
            /\ pipes' = [pipes EXCEPT !.err = Append(@, Head(childProc.err))]
            /\ childProc' = [childProc EXCEPT !.err = Tail(@)]
    /\ UNCHANGED <<findVars, batchVars, namesVars, abiVars, snapVars, procVars, fetchVars,
                   stdoutReader, stderrReader, cliMsg>>

\* the child has written everything and exits; with status zero it has
\* left the repository in the cache
ChildExits ==
    /\ childProc.state = "running"
    /\ childProc.out = << >>
    /\ childProc.err = << >>
    /\ childProc' = [childProc EXCEPT !.state = "exited"]
    /\ \E written \in {IF childProc.status = 0
                       THEN WriteAll(cache, RepoId, pArgs.revision, hub.sha, hub.files)
                       ELSE cache} :
           cache' = written
    /\ UNCHANGED <<findVars, batchVars, namesVars, abiVars, snapVars, hub, pArgs, pc,
                   repoCheck, procRet, fetchVars, pipes, stdoutReader, stderrReader, cliMsg>>

\* a turn of `for line in reader.lines().map_while(Result::ok)`: the next
\* line is taken from the pipe; an unreadable line or the end of the
\* stream (pipe empty, writer gone) ends the loop and the thread
ReaderTurn(reader, pipe, keep) ==
    IF pipe = << >> \/ Head(pipe) = InvalidLine
    THEN [reader EXCEPT !.st = "finished"]
    ELSE [reader EXCEPT !.printed = Append(@, Head(pipe)),
                        !.error_output = IF keep THEN @ \o <<Head(pipe), Newline>> ELSE @]

\* the stdout thread: println!("{}", line)
StdoutReaderStep ==
    /\ stdoutReader.st = "reading"
    /\ pipes.out # << >> \/ childProc.state = "exited"
    /\ stdoutReader' = ReaderTurn(stdoutReader, pipes.out, FALSE)
    /\ pipes' = [pipes EXCEPT !.out = IF @ = << >> THEN @ ELSE Tail(@)]
    /\ UNCHANGED <<findVars, batchVars, namesVars, abiVars, snapVars, procVars, fetchVars,
                   childProc, stderrReader, cliMsg>>

\* the stderr thread: eprintln!("{}", line) and error_output.push_str
StderrReaderStep ==
    /\ stderrReader.st = "reading"
    /\ pipes.err # << >> \/ childProc.state = "exited"
    /\ stderrReader' = ReaderTurn(stderrReader, pipes.err, TRUE)
    /\ pipes' = [pipes EXCEPT !.err = IF @ = << >> THEN @ ELSE Tail(@)]
    /\ UNCHANGED <<findVars, batchVars, namesVars, abiVars, snapVars, procVars, fetchVars,
                   childProc, stdoutReader, cliMsg>>

\* child.wait() returns once the child has exited
WaitReturns ==
    /\ fetchPc = "cli_wait"
    /\ childProc.state = "exited"
    /\ fetchPc' = "cli_join_stdout"
    /\ UNCHANGED <<findVars, batchVars, namesVars, abiVars, snapVars, procVars, fetchRet,
                   tasks, results, cliVars>>

\* stdout_handle.join() returns once the stdout thread has finished
JoinStdout ==
    /\ fetchPc = "cli_join_stdout"
    /\ stdoutReader.st = "finished"
    /\ fetchPc' = "cli_join_stderr"
    /\ UNCHANGED <<findVars, batchVars, namesVars, abiVars, snapVars, procVars, fetchRet,
                   tasks, results, cliVars>>

\* the Result of the delegated strategy, from the exit status and the
\* error_output the stderr thread returned
CliResult(status, stderr_output) ==
    IF status # 0
    THEN [ret |-> FetchReturn("Err", "exit_nonzero", 0, 0),
          msg |-> [repo_id |-> RepoId, stderr_output |-> stderr_output]]
    ELSE [ret |-> FetchReturn("Ok", "cli", 0, 0), msg |-> NoCliMsg]

\* A plausible slip: error_output is taken before the stderr thread has
\* finished.
JoinStderrWithoutWaiting ==
    /\ fetchPc = "cli_join_stderr"
    /\ fetchRet' = CliResult(childProc.status, stderrReader.error_output).ret
    /\ cliMsg' = CliResult(childProc.status, stderrReader.error_output).msg
    /\ fetchPc' = "returned"
    /\ UNCHANGED <<findVars, batchVars, namesVars, abiVars, snapVars, procVars, tasks,
                   results, childProc, pipes, stdoutReader, stderrReader>>

\* stderr_handle.join() returns error_output once the stderr thread has
\* finished, and the function returns
JoinStderr ==
    /\ fetchPc = "cli_join_stderr"
    /\ stderrReader.st = "finished"
    /\ fetchRet' = CliResult(childProc.status, stderrReader.error_output).ret
    /\ cliMsg' = CliResult(childProc.status, stderrReader.error_output).msg
    /\ fetchPc' = "returned"
    /\ UNCHANGED <<findVars, batchVars, namesVars, abiVars, snapVars, procVars, tasks,
                   results, childProc, pipes, stdoutReader, stderrReader>>

NextCli ==
    \/ FetchBegin
    \/ SpawnHubCli
    \/ ChildWritesStdout
    \/ ChildWritesStderr
    \/ ChildExits
    \/ StdoutReaderStep
    \/ StderrReaderStep
    \/ WaitReturns
    \/ JoinStdout
    \/ JoinStderr

SpecCli == InitCli /\ [][NextCli]_vars

\* the delegated strategy has returned
CliReturned ==
    /\ fetchPc = "returned"
    /\ fetchRet.why \in {"spawn_failed", "exit_nonzero", "cli"}

\* the lines of stderr_output: each captured line followed by a newline
RECURSIVE LinesWithNewlines(_)
LinesWithNewlines(lines) ==
    IF lines = << >> THEN << >>
    ELSE <<Head(lines), Newline>> \o LinesWithNewlines(Tail(lines))

\* C24: with prefer_hub_cli the fetch returns Ok exactly when the tool
\* exited with status zero; when the tool was spawned it returns only
\* after the tool has exited and both reader threads have finished; and
\* on a non-zero exit the message of the FetchError holds every line the
\* stderr thread captured, in order.
C24_DelegatedStrategy ==
    CliReturned =>
        /\ fetchRet.ret = "Ok" <=> (childProc.state = "exited" /\ childProc.status = 0)
        /\ childProc.state # "none" =>
               /\ childProc.state = "exited"
               /\ stdoutReader.st = "finished"
               /\ stderrReader.st = "finished"
        /\ (childProc.state = "exited" /\ childProc.status # 0) =>
               /\ fetchRet.ret = "Err"
               /\ cliMsg.repo_id = RepoId
               /\ cliMsg.stderr_output = LinesWithNewlines(stderrReader.printed)
               /\ NamesOf(cliMsg.stderr_output) \subseteq {"e", "f", Newline}

\* a non-zero exit after two lines on stderr, both in the message
C24_Witness ==
    /\ CliReturned
    /\ fetchRet.ret = "Err"
    /\ childProc.status # 0
    /\ cliMsg.stderr_output = <<"e", Newline, "f", Newline>>
    /\ stdoutReader.printed = <<"o">>

====
